---- MODULE Spec2Model ----
(***************************************************************************)
(* MediShift scheduler: the monthly call scheduler (MonthlyCallScheduler,  *)
(* v4.0) as a state machine.  One run of generateSchedule is modelled slot *)
(* by slot: the state holds the scheduler's inputs, its per-resident       *)
(* CallStats, the list of assignments built so far and the position of the *)
(* day/slot loop.                                                          *)
(*                                                                         *)
(* Dates are civil days, counted from 1970-01-01 (day 0); every Date the   *)
(* scheduler builds is a local midnight, so comparing Dates is comparing   *)
(* day numbers.  Scores are rationals with denominator residents.length;   *)
(* the model carries score * residents.length as an integer.               *)
(*                                                                         *)
(* A second run of the same scheduler on the reversed residents list is    *)
(* carried in the variable "reordered"; both runs advance in lockstep.     *)
(***************************************************************************)
EXTENDS Integers, Sequences, FiniteSets, TLC

VARIABLES
    residents,         \* this.residents: the roster, in list order
    config,            \* this.config (monthlySchedulerConfig + holidays)
    academicYear,      \* this.academicYear
    approvedLeave,     \* this.approvedLeave
    holidays,          \* this.holidays, as loadHolidays built it
    month,             \* this.month, 0..11
    year,              \* this.year
    staffingLevel,     \* argument of generateSchedule
    callStats,         \* this.callStats: resident id -> CallStats
    assignments,       \* local list "assignments" of generateSchedule
    dayRequirements,   \* local list "dayRequirements", after the sort
    selectedResidents, \* local list "selectedResidents" of the day in hand
    pc,                \* position of generateSchedule's loops
    reordered,         \* the same run on the reversed residents list
    givenWorkingDays,  \* argument of a call of getMaxCalls on its own
    maxCalls,          \* what getMaxCalls returned, per staffing level
    engine,            \* the fields of a YearlyScheduleEngine
    enginePhase,       \* position of the engine's generateSchedule
    coverageViolations,\* blocks phase 7 reported a coverage violation for
    returnedYear,      \* the AcademicYear the engine's generateSchedule returned
    db,                \* the Firestore collections the leave analyzer uses
    now,               \* the day of Date.now() for the leave analyzer
    invocations,       \* the invocations of analyzeLeaveRequest for the request
    statusWrites,      \* every status written to the request, in order
    firestore,         \* the collections the callable functions read and write
    cache,             \* the entries of CacheService, by key
    rpcs,              \* the calls of the callable functions, by call
    analysisCall,      \* a function of the leave analyzer called on its own
    analysisReturn     \* what that call returned

\* The monthly call scheduler and one run of its generateSchedule.
monthlyVars == << residents, config, academicYear, approvedLeave, holidays, month,
                  year, staffingLevel, callStats, assignments, dayRequirements,
                  selectedResidents, pc, reordered >>

\* Calls of getMaxCalls on its own.
maxCallsVars == << givenWorkingDays, maxCalls >>

\* The yearly schedule engine and one run of its generateSchedule.
yearlyVars == << engine, enginePhase, coverageViolations, returnedYear >>

\* The leave analyzer, its database and its invocations for one request.
analyzerVars == << db, now, invocations, statusWrites >>

\* The callable functions generate*Schedule, their store and their cache.
rpcVars == << firestore, cache, rpcs >>

\* A function of the leave analyzer called on its own.
callVars == << analysisCall, analysisReturn >>

\* Everything but the run of the monthly call scheduler.
notMonthly == << maxCallsVars, yearlyVars, analyzerVars, rpcVars, callVars >>

\* Everything but the calls of getMaxCalls on its own.
notMaxCalls == << monthlyVars, yearlyVars, analyzerVars, rpcVars, callVars >>

\* Everything but the yearly schedule engine.
notYearly == << monthlyVars, maxCallsVars, analyzerVars, rpcVars, callVars >>

\* Everything but the leave analyzer.
notAnalyzer == << monthlyVars, maxCallsVars, yearlyVars, rpcVars, callVars >>

\* Everything but the callable functions.
notRpc == << monthlyVars, maxCallsVars, yearlyVars, analyzerVars, callVars >>

\* Everything but the functions of the leave analyzer called on their own.
notCalls == << monthlyVars, maxCallsVars, yearlyVars, analyzerVars, rpcVars >>

vars == << monthlyVars, maxCallsVars, yearlyVars, analyzerVars, rpcVars, callVars >>

inputs == << residents, config, academicYear, approvedLeave, holidays, month, year,
             staffingLevel >>

-----------------------------------------------------------------------------
(* Bounds of the model                                                     *)

MaxResidents == 2
MaxWeekendsConfigured == 2

-----------------------------------------------------------------------------
(* Program constants                                                       *)

BLOCKS_PER_YEAR == 13
DAYS_PER_BLOCK == 28
NoDate == 0 - 1          \* an undefined Date (lastCallDate?: Date)

Teams == {"Red", "Blue"}
NoTeam == "none"         \* team?: undefined

-----------------------------------------------------------------------------
(* Calendar: new Date(y, m, d), getDay(), getDaysBetween                   *)

Min(a, b) == IF a <= b THEN a ELSE b
Max(a, b) == IF a >= b THEN a ELSE b
Abs(a) == IF a >= 0 THEN a ELSE 0 - a

\* Days from 1970-01-01 to the civil date y-m-d (m in 1..12), proleptic
\* Gregorian calendar.
DaysFromCivil(y, m, d) ==
    LET yy  == IF m <= 2 THEN y - 1 ELSE y
        era == yy \div 400
        yoe == yy - era * 400
        mp  == IF m > 2 THEN m - 3 ELSE m + 9
        doy == (153 * mp + 2) \div 5 + d - 1
        doe == yoe * 365 + yoe \div 4 - yoe \div 100 + doy
    IN  era * 146097 + doe - 719468

\* new Date(y, m, d) with a 0-based month; month overflow and day 0 (the
\* last day of the previous month) roll over as in JavaScript.
NewDate(y, m, d) == DaysFromCivil(y + m \div 12, (m % 12) + 1, 1) + d - 1

\* Date.prototype.getDay(): 0 = Sunday .. 6 = Saturday.
GetDay(date) == (date + 4) % 7

\* new Date(this.year, this.month + 1, 0).getDate()
DaysInMonth(y, m) == NewDate(y, m + 1, 0) - NewDate(y, m, 1) + 1

\* postCallDate.getMonth() !== this.month, for a date of the month or the
\* day after one.
InMonth(date, y, m) == date >= NewDate(y, m, 1) /\ date <= NewDate(y, m + 1, 0)

GetDaysBetween(date1, date2) == Abs(date2 - date1)

-----------------------------------------------------------------------------
(* Configuration and academic-year look-ups                                *)

DayNames == << "sunday", "monday", "tuesday", "wednesday", "thursday",
               "friday", "saturday" >>

\* date.toLocaleDateString('en-US', {weekday: 'long'}).toLowerCase()
DayName(date) == DayNames[GetDay(date) + 1]

\* loadHolidays: the configured holidays plus Jan 1, Jul 4 and Dec 25 of
\* the scheduled year.
LoadHolidays(configured, y) ==
    configured \cup { NewDate(y, 0, 1), NewDate(y, 6, 4), NewDate(y, 11, 25) }

IsHoliday(date) == date \in holidays

IsWeekend(date) == DayName(date) \in config.monthlySchedulerConfig.weekendDefinition

NoBlock == [ blockNumber |-> 0, startDate |-> NoDate, endDate |-> NoDate,
             assignments |-> << >> ]

NoRotation == [ residentId |-> 0, rotationType |-> "none", team |-> NoTeam ]

\* Array.prototype.find on academicYear.blocks: the first block whose
\* [startDate, endDate] holds the date, or undefined.
GetCurrentBlock(date) ==
    LET hit == { i \in 1..Len(academicYear.blocks) :
                    /\ date >= academicYear.blocks[i].startDate
                    /\ date <= academicYear.blocks[i].endDate }
    IN  IF hit = {} THEN NoBlock
        ELSE academicYear.blocks[CHOOSE i \in hit : \A j \in hit : i <= j]

\* block.assignments.find(a => a.residentId === residentId)
FindRotation(block, residentId) ==
    LET hit == { i \in 1..Len(block.assignments) :
                    block.assignments[i].residentId = residentId }
    IN  IF hit = {} THEN NoRotation
        ELSE block.assignments[CHOOSE i \in hit : \A j \in hit : i <= j]

GetResidentTeam(residentId, date) ==
    FindRotation(GetCurrentBlock(date), residentId).team

\* Days of the block that are not holidays; 28 without a block.
GetWorkingDaysForBlock(block) ==
    IF block = NoBlock THEN 28
    ELSE (block.endDate - block.startDate + 1)
            - Cardinality({ h \in holidays :
                              h >= block.startDate /\ h <= block.endDate })

\* getRequiredResidentCount with double coverage on weekends too.
DoubleWeekendCoverage(callType) ==
    CASE callType = "Holiday" -> 2
      [] callType = "Weekend" -> 2
      [] callType = "Night"   -> 1
      [] OTHER                -> 0

GetRequiredResidentCount(callType) ==
    CASE callType = "Holiday" -> 2
      [] callType = "Weekend" -> 1
      [] callType = "Night"   -> 1
      [] OTHER                -> 0

RequiresPostCall(callType) == callType \in {"Night", "Weekend", "Holiday"}

CalculateCallPoints(callType) ==
    CASE callType = "Night"   -> 1
      [] callType = "Weekend" -> 2
      [] callType = "Holiday" -> 3
      [] OTHER                -> 0

-----------------------------------------------------------------------------
(* Day requirements                                                        *)

DayRequirementFor(date) ==
    LET dayOfWeek == GetDay(date)
        isWeekend == IsWeekend(date)
        isHoliday == IsHoliday(date)
        callType  == IF isHoliday THEN "Holiday"
                     ELSE IF isWeekend THEN "Weekend"
                     ELSE IF dayOfWeek >= 1 /\ dayOfWeek <= 4 THEN "Night"
                     ELSE "None"
        priority  == IF isHoliday THEN 3
                     ELSE IF isWeekend THEN 2
                     ELSE IF dayOfWeek >= 1 /\ dayOfWeek <= 4 THEN 1
                     ELSE 0
    IN  [ date |-> date, dayOfWeek |-> dayOfWeek, isWeekend |-> isWeekend,
          isHoliday |-> isHoliday, callType |-> callType,
          requiredCoverage |-> GetRequiredResidentCount(callType),
          priority |-> priority ]

CalculateDayRequirements(daysInMonth) ==
    [ day \in 1..daysInMonth |-> DayRequirementFor(NewDate(year, month, day)) ]

\* dayRequirements.sort((a, b) => b.priority - a.priority): a stable sort by
\* descending priority, so days of equal priority stay in calendar order.
SortByPriority(reqs) ==
    LET WithPriority(p) == SelectSeq(reqs, LAMBDA r : r.priority = p)
    IN  WithPriority(3) \o WithPriority(2) \o WithPriority(1) \o WithPriority(0)

-----------------------------------------------------------------------------
(* Rule evaluator                                                          *)

IsOnLeave(residentId, date) ==
    \E i \in 1..Len(approvedLeave) :
        /\ approvedLeave[i].residentId = residentId
        /\ approvedLeave[i].status = "Approved"
        /\ date >= approvedLeave[i].startDate
        /\ date <= approvedLeave[i].endDate

HasRequestedTimeOff(residentId, date) ==
    \E i \in 1..Len(approvedLeave) :
        /\ approvedLeave[i].residentId = residentId
        /\ approvedLeave[i].status = "Pending Approval"
        /\ date >= approvedLeave[i].startDate
        /\ date <= approvedLeave[i].endDate

\* Only the date of the call assigned last (in processing order) is looked at.
IsPostCall(stats, residentId, date) ==
    IF stats[residentId].lastCallDate = NoDate THEN FALSE
    ELSE GetDaysBetween(stats[residentId].lastCallDate, date) < 2

\* config.monthlySchedulerConfig.callRatios[pgyLevel]; 0 stands for undefined
\* (both are falsy in "if (!callRatio)").
CallRatioOf(pgyLevel) ==
    LET callRatios == config.monthlySchedulerConfig.callRatios
    IN  IF pgyLevel \in DOMAIN callRatios THEN callRatios[pgyLevel] ELSE 0

\* The cap of the last rule that holds the working days, else 8.
ParoHardCapOfLastRule(workingDays) ==
    LET caps == config.monthlySchedulerConfig.paroHardCaps
        hit  == { i \in 1..Len(caps) :
                    workingDays >= caps[i].minDays /\ workingDays <= caps[i].maxDays }
    IN  IF hit = {} THEN 8
        ELSE caps[CHOOSE i \in hit : \A j \in hit : i >= j].calls

\* paroHardCaps.find(rule => minDays <= workingDays <= maxDays), else 8
ParoHardCapFor(workingDays) ==
    LET caps == config.monthlySchedulerConfig.paroHardCaps
        hit  == { i \in 1..Len(caps) :
                    workingDays >= caps[i].minDays /\ workingDays <= caps[i].maxDays }
    IN  IF hit = {} THEN 8
        ELSE caps[CHOOSE i \in hit : \A j \in hit : i <= j].calls

\* getMaxCalls without the exemption of call-exempt chiefs.
GetMaxCallsNoExemption(resident, workingDays, level) ==
    LET paroHardCap == ParoHardCapFor(workingDays)
        callRatio   == CallRatioOf(resident.pgyLevel)
    IN  IF callRatio = 0 THEN paroHardCap
        ELSE IF level = "Normal"
             THEN Min(paroHardCap, workingDays \div callRatio)
             ELSE paroHardCap

\* getMaxCalls with the two staffing modes exchanged.
GetMaxCallsModesExchanged(resident, workingDays, level) ==
    IF resident.isChief /\ resident.callExempt THEN 0
    ELSE LET paroHardCap == ParoHardCapFor(workingDays)
             callRatio   == CallRatioOf(resident.pgyLevel)
         IN  IF callRatio = 0 THEN paroHardCap
             ELSE IF level = "Shortage"
                  THEN Min(paroHardCap, workingDays \div callRatio)
                  ELSE paroHardCap

GetMaxCalls(resident, workingDays, level) ==
    IF resident.isChief /\ resident.callExempt THEN 0
    ELSE LET paroHardCap == ParoHardCapFor(workingDays)
             callRatio   == CallRatioOf(resident.pgyLevel)
         IN  IF callRatio = 0 THEN paroHardCap
             ELSE IF level = "Normal"
                  THEN Min(paroHardCap, workingDays \div callRatio)
                  ELSE paroHardCap

\* config.monthlySchedulerConfig.maxWeekendsPerRotation || 2
MaxWeekends ==
    IF config.monthlySchedulerConfig.maxWeekendsPerRotation = 0 THEN 2
    ELSE config.monthlySchedulerConfig.maxWeekendsPerRotation

\* At most lookback / 4 = 7 calls in [date - 28, date], the new one included.
CheckPAROCompliance(stats, residentId, date) ==
    LET callDates   == stats[residentId].callDates
        recentCalls == Cardinality({ i \in 1..Len(callDates) :
                          callDates[i] >= date - 28 /\ callDates[i] < date })
    IN  (recentCalls + 1) * 4 <= 28

\* Check 1 of isEligibleForCall: a block holds the date, the resident has a
\* rotation in it, and the rotation is CORE_NSX.
OnAnyRotation(resident, date) ==
    LET block == GetCurrentBlock(date)
    IN  block # NoBlock /\ FindRotation(block, resident.id) # NoRotation

OnCoreRotation(resident, date) ==
    LET block    == GetCurrentBlock(date)
        rotation == FindRotation(block, resident.id)
    IN  /\ block # NoBlock
        /\ rotation # NoRotation
        /\ rotation.rotationType = "CORE_NSX"

\* Check 4: stats.totalCalls >= maxCalls rejects.
AtMostMaxCalls(stats, resident, date, level) ==
    stats[resident.id].totalCalls <=
        GetMaxCalls(resident, GetWorkingDaysForBlock(GetCurrentBlock(date)), level)

UnderMaxCalls(stats, resident, date, level) ==
    stats[resident.id].totalCalls <
        GetMaxCalls(resident, GetWorkingDaysForBlock(GetCurrentBlock(date)), level)

\* Check 5: on a weekend day, stats.weekendCalls >= maxWeekends rejects.
AtMostWeekendLimit(stats, resident, date) ==
    IsWeekend(date) => stats[resident.id].weekendCalls <= MaxWeekends

UnderWeekendLimit(stats, resident, date) ==
    IsWeekend(date) => stats[resident.id].weekendCalls < MaxWeekends

IsEligibleForCall(stats, resident, date, level) ==
    /\ OnCoreRotation(resident, date)
    /\ ~IsOnLeave(resident.id, date)
    /\ ~IsPostCall(stats, resident.id, date)
    /\ UnderMaxCalls(stats, resident, date, level)
    /\ UnderWeekendLimit(stats, resident, date)
    /\ CheckPAROCompliance(stats, resident.id, date)

-----------------------------------------------------------------------------
(* Scorer.  Every score is computed times N = residents.length, which makes *)
(* the two averages (total / N) integers.                                  *)

SumOver(S, f(_)) ==
    LET RECURSIVE Sum(_)
        Sum(T) == IF T = {} THEN 0
                  ELSE LET x == CHOOSE y \in T : TRUE
                       IN  f(x) + Sum(T \ {x})
    IN  Sum(S)

TotalCalls(stats) == SumOver(DOMAIN stats, LAMBDA id : stats[id].totalCalls)
TotalPoints(stats) == SumOver(DOMAIN stats, LAMBDA id : stats[id].points)

\* Math.round(p / q) for q > 0: halves round towards +Infinity.
RoundDiv(p, q) == (2 * p + q) \div (2 * q)

\* Math.round((overallAverage - teamAverage) * 5); team membership is read
\* from the block of the 15th of the month.
GetTeamCallBalance(stats, team) ==
    LET block   == GetCurrentBlock(NewDate(year, month, 15))
        members == { i \in 1..Len(residents) :
                        FindRotation(block, residents[i].id).team = team }
        teamCalls   == SumOver(members, LAMBDA i : stats[residents[i].id].totalCalls)
        teamMembers == Cardinality(members)
        n           == Len(residents)
    IN  IF teamMembers = 0 THEN 0
        ELSE RoundDiv(5 * (TotalCalls(stats) * teamMembers - teamCalls * n),
                      n * teamMembers)

\* scoreResident(...).score * residents.length
ScoreResident(stats, resident, date, callType) ==
    LET n         == Len(residents)
        st        == stats[resident.id]
        fairness  == Max(0, 30 * n - (st.totalCalls * n - TotalCalls(stats)) * 10)
        rest      == IF st.lastCallDate # NoDate
                     THEN Min(GetDaysBetween(st.lastCallDate, date) * 3, 30)
                     ELSE 30
        seniority == IF callType \in {"Weekend", "Holiday"}
                     THEN resident.pgyLevel * 2 ELSE 0
        points    == Max(0, 20 * n - (st.points * n - TotalPoints(stats)))
        team      == GetResidentTeam(resident.id, date)
        balance   == IF team # NoTeam THEN GetTeamCallBalance(stats, team) ELSE 0
        penalty   == IF HasRequestedTimeOff(resident.id, date) THEN 50 ELSE 0
    IN  Max(0, 100 * n + fairness + rest * n + seniority * n + points
                 + balance * n - penalty * n)

NoResident == [ id |-> 0, pgyLevel |-> 0, isChief |-> FALSE,
                callExempt |-> FALSE, onService |-> FALSE ]

\* The eligible residents not yet selected for the day, in list order; the
\* stable sort by descending score puts first the earliest of the best.
SelectBestResident(list, stats, date, callType, level, excludeIds) ==
    LET eligibleResidents ==
            SelectSeq(list, LAMBDA r : /\ r.id \notin excludeIds
                                       /\ IsEligibleForCall(stats, r, date, level))
        Score(i) == ScoreResident(stats, eligibleResidents[i], date, callType)
        \* scoredResidents[0] after the sort: First(i, b, sb) is the index of
        \* the first best-scored resident of eligibleResidents[1..i] and the
        \* rest, b (of score sb) being the best of eligibleResidents[1..i-1].
        RECURSIVE First(_, _, _)
        First(i, b, sb) ==
            IF i > Len(eligibleResidents) THEN b
            ELSE LET si == Score(i)
                 IN  IF si > sb THEN First(i + 1, i, si) ELSE First(i + 1, b, sb)
    IN  IF Len(eligibleResidents) = 0 THEN NoResident
        ELSE eligibleResidents[First(2, 1, Score(1))]

-----------------------------------------------------------------------------
(* One slot of generateSchedule's inner loop                               *)

CreateCallAssignment(resident, date, callType, isHoliday) ==
    [ residentId |-> resident.id, date |-> date, type |-> callType,
      points |-> CalculateCallPoints(callType), isHoliday |-> isHoliday,
      team |-> GetResidentTeam(resident.id, date), status |-> "Scheduled" ]

\* createPostCallAssignments without the test of the month.
PostCallInNextMonthToo(callAssignment, callType) ==
    IF ~RequiresPostCall(callType) THEN << >>
    ELSE << [ callAssignment EXCEPT !.date = callAssignment.date + 1,
                                    !.type = "PostCall",
                                    !.points = 0,
                                    !.status = "PostCall" ] >>

\* A copy of the call (team included) one day later, unless that day is in
\* the next month.
CreatePostCallAssignments(callAssignment, callType) ==
    IF ~RequiresPostCall(callType) THEN << >>
    ELSE IF ~InMonth(callAssignment.date + 1, year, month) THEN << >>
    ELSE << [ callAssignment EXCEPT !.date = callAssignment.date + 1,
                                    !.type = "PostCall",
                                    !.points = 0,
                                    !.status = "PostCall" ] >>

UpdateResidentStats(stats, residentId, dayReq) ==
    [ stats EXCEPT ![residentId] =
        [ @ EXCEPT
            !.totalCalls   = @ + 1,
            !.lastCallDate = dayReq.date,
            !.callDates    = Append(@, dayReq.date),
            !.weekendCalls = IF dayReq.isWeekend THEN @ + 1 ELSE @,
            !.holidayCalls = IF dayReq.isHoliday THEN @ + 1 ELSE @,
            !.nightCalls   = IF dayReq.callType = "Night" THEN @ + 1 ELSE @,
            !.points       = @ + CalculateCallPoints(dayReq.callType) ] ]

\* The body of "for (let i = 0; i < requiredResidents; i++)" on the run
\* [callStats, assignments, selectedResidents] of the residents list "list".
ProcessSlot(list, run, dayReq, level) ==
    LET bestResident ==
            SelectBestResident(list, run.callStats, dayReq.date, dayReq.callType,
                level, { run.selectedResidents[i].id :
                            i \in 1..Len(run.selectedResidents) })
        assignment ==
            CreateCallAssignment(bestResident, dayReq.date, dayReq.callType,
                                 dayReq.isHoliday)
    IN  IF bestResident = NoResident THEN run
        ELSE [ callStats |-> UpdateResidentStats(run.callStats, bestResident.id, dayReq),
               assignments |-> run.assignments \o << assignment >> \o
                               CreatePostCallAssignments(assignment, dayReq.callType),
               selectedResidents |-> Append(run.selectedResidents, bestResident) ]

\* selectedResidents is a fresh list for every day.
EndOfDay(run, lastSlot) ==
    IF lastSlot THEN [ run EXCEPT !.selectedResidents = << >> ] ELSE run

Reverse(list) == [ i \in 1..Len(list) |-> list[Len(list) + 1 - i] ]

-----------------------------------------------------------------------------
(* Inputs of a run                                                         *)

\* generateBlockDates: 13 blocks of 28 days from July 1 of the start year.
BlockDates(startYear) ==
    [ i \in 1..BLOCKS_PER_YEAR |->
        [ start |-> NewDate(startYear, 6, 1) + (i - 1) * DAYS_PER_BLOCK,
          end   |-> NewDate(startYear, 6, 1) + (i - 1) * DAYS_PER_BLOCK
                        + DAYS_PER_BLOCK - 1 ] ]

\* phase6_BalanceTeams on one block: the CORE_NSX rows take Red and Blue in
\* turn, Red first; the other rows carry no team.
BalanceTeams(rotationTypes) ==
    [ i \in 1..Len(rotationTypes) |->
        IF rotationTypes[i] # "CORE_NSX" THEN NoTeam
        ELSE IF Cardinality({ j \in 1..(i - 1) : rotationTypes[j] = "CORE_NSX" }) % 2 = 0
             THEN "Red" ELSE "Blue" ]

\* The blocks of the academic year, as formatScheduleForFirestore stores
\* them, that hold a day of the month y-m.  (getCurrentBlock is only asked
\* about days of the month, so the other blocks never match.)  rotations[i]
\* lists resident i's rotationType in the first and in the later block of
\* the month; "none" is a resident without a row in the block.
AcademicYearFor(startYear, y, m, rotations) ==
    LET dates   == BlockDates(startYear)
        inMonth == SelectSeq([ i \in 1..BLOCKS_PER_YEAR |-> i ],
                       LAMBDA i : /\ dates[i].start <= NewDate(y, m + 1, 0)
                                  /\ dates[i].end >= NewDate(y, m, 1))
        TypesIn(k) == [ i \in 1..Len(rotations) |-> rotations[i][Min(k, 2)] ]
        Rows(k) ==
            LET types == TypesIn(k)
                teams == BalanceTeams(types)
                all   == [ i \in 1..Len(types) |->
                            [ residentId |-> i, rotationType |-> types[i],
                              team |-> teams[i] ] ]
            IN  SelectSeq(all, LAMBDA a : a.rotationType # "none")
    IN  [ id |-> startYear,
          blocks |-> [ k \in 1..Len(inMonth) |->
                        [ blockNumber |-> inMonth[k],
                          startDate |-> dates[inMonth[k]].start,
                          endDate |-> dates[inMonth[k]].end,
                          assignments |-> Rows(k) ] ] ]

\* The months scheduled: February, June and July 2025 with the academic
\* year that holds them, and February 2025 with the academic year
\* "2025-2026" (the id generateMonthlySchedule derives from the year alone).
MonthInputs ==
    { [ year |-> 2025, month |-> 1, academicYearStart |-> 2024 ],
      [ year |-> 2025, month |-> 5, academicYearStart |-> 2024 ],
      [ year |-> 2025, month |-> 6, academicYearStart |-> 2025 ],
      [ year |-> 2025, month |-> 1, academicYearStart |-> 2025 ] }

StaffingLevels == { "Normal", "Shortage" }

CoreBoth == << "CORE_NSX", "CORE_NSX" >>

\* What a resident of the roster can look like.  "leave" holds at most one
\* leave request, given by the days of the month it spans.
ResidentKinds ==
    { [ pgyLevel |-> 2, isChief |-> FALSE, callExempt |-> FALSE,
        rotations |-> CoreBoth, leave |-> << >> ],
      [ pgyLevel |-> 5, isChief |-> FALSE, callExempt |-> FALSE,
        rotations |-> CoreBoth, leave |-> << >> ],
      [ pgyLevel |-> 5, isChief |-> TRUE, callExempt |-> TRUE,
        rotations |-> CoreBoth, leave |-> << >> ],
      [ pgyLevel |-> 3, isChief |-> FALSE, callExempt |-> FALSE,
        rotations |-> << "CORE_NSX", "MANDATORY_OFF_SERVICE" >>, leave |-> << >> ],
      [ pgyLevel |-> 3, isChief |-> FALSE, callExempt |-> FALSE,
        rotations |-> << "none", "CORE_NSX" >>, leave |-> << >> ],
      [ pgyLevel |-> 2, isChief |-> FALSE, callExempt |-> FALSE,
        rotations |-> CoreBoth,
        leave |-> << [ status |-> "Approved", first |-> 6, last |-> 9 ] >> ],
      [ pgyLevel |-> 4, isChief |-> FALSE, callExempt |-> FALSE,
        rotations |-> CoreBoth,
        leave |-> << [ status |-> "Pending Approval", first |-> 3, last |-> 4 ] >> ] }

PlainKind(pgyLevel) ==
    [ pgyLevel |-> pgyLevel, isChief |-> FALSE, callExempt |-> FALSE,
      rotations |-> CoreBoth, leave |-> << >> ]

\* A chief resident exempted from call.
ExemptChief ==
    [ pgyLevel |-> 5, isChief |-> TRUE, callExempt |-> TRUE,
      rotations |-> CoreBoth, leave |-> << >> ]

Rosters == UNION { [ 1..n -> ResidentKinds ] : n \in 0..MaxResidents }

DefaultWeekend == { "friday", "saturday", "sunday" }

DefaultSchedulerConfig ==
    [ paroHardCaps |-> << [ minDays |-> 1, maxDays |-> 31, calls |-> 7 ] >>,
      callRatios |-> (2 :> 5) @@ (3 :> 4) @@ (4 :> 3) @@ (5 :> 3),
      maxWeekendsPerRotation |-> 2,
      weekendDefinition |-> DefaultWeekend ]

SchedulerConfigs ==
    [ paroHardCaps : { << [ minDays |-> 1, maxDays |-> 31, calls |-> 7 ] >>,
                       << [ minDays |-> 1, maxDays |-> 27, calls |-> 2 ],
                          [ minDays |-> 28, maxDays |-> 31, calls |-> 3 ] >> },
      callRatios : { (2 :> 5) @@ (3 :> 4) @@ (4 :> 3) @@ (5 :> 3),
                     (2 :> 10) @@ (3 :> 9),
                     << >> },
      maxWeekendsPerRotation : 0..MaxWeekendsConfigured,
      weekendDefinition : { DefaultWeekend, { "saturday", "sunday" } } ]

\* config.holidays, as days of the scheduled month.
HolidayDays == { {}, { 11 } }

\* One input of the scheduler: roster, configuration, month and mode.
RunInput(kinds, schedulerConfig, holidayDays, mi, level) ==
    [ residents |-> [ i \in 1..Len(kinds) |->
                        [ id |-> i, pgyLevel |-> kinds[i].pgyLevel,
                          isChief |-> kinds[i].isChief,
                          callExempt |-> kinds[i].callExempt,
                          onService |-> TRUE ] ],
      config |-> [ monthlySchedulerConfig |-> schedulerConfig,
                   holidays |-> { NewDate(mi.year, mi.month, d) : d \in holidayDays } ],
      academicYear |-> AcademicYearFor(mi.academicYearStart, mi.year, mi.month,
                           [ i \in 1..Len(kinds) |-> kinds[i].rotations ]),
      approvedLeave |->
          LET RECURSIVE Leaves(_)
              Leaves(i) ==
                  IF i > Len(kinds) THEN << >>
                  ELSE [ j \in 1..Len(kinds[i].leave) |->
                           [ residentId |-> i,
                             status |-> kinds[i].leave[j].status,
                             startDate |-> NewDate(mi.year, mi.month, kinds[i].leave[j].first),
                             endDate |-> NewDate(mi.year, mi.month, kinds[i].leave[j].last) ] ]
                       \o Leaves(i + 1)
          IN  Leaves(1),
      month |-> mi.month,
      year |-> mi.year,
      staffingLevel |-> level ]

\* Any roster under the default configuration, in a month its academic
\* year holds.
RosterInputs ==
    { RunInput(kinds, DefaultSchedulerConfig, {}, mi, level) :
        kinds \in Rosters,
        mi \in { m \in MonthInputs : m.academicYearStart = 2024 \/ m.month = 6 },
        level \in StaffingLevels }

\* Any configuration with an exempt chief and three residents (PGY 2, 3, 5),
\* all on CORE_NSX.
ConfigInputs ==
    { RunInput(<< ExemptChief, PlainKind(2), PlainKind(3), PlainKind(5) >>,
               sc, hd, mi, level) :
        sc \in SchedulerConfigs, hd \in HolidayDays, mi \in MonthInputs,
        level \in StaffingLevels }

\* The small-month scenario: PGY 2, 3, 4, 5 on CORE_NSX, February 2025,
\* Normal staffing, caps [{1,31,7}], ratios {2:5, 3:4, 4:3, 5:3}, at most 2
\* weekends, weekend = Fri/Sat/Sun, no leave, no configured holiday.
SmallMonthInput ==
    RunInput(<< PlainKind(2), PlainKind(3), PlainKind(4), PlainKind(5) >>,
             DefaultSchedulerConfig, {},
             [ year |-> 2025, month |-> 1, academicYearStart |-> 2024 ], "Normal")

\* One PGY-2 resident on CORE_NSX in July 2025, a configuration without
\* paroHardCaps or callRatios (getMaxCalls falls back to 8), and a holiday
\* on Tuesday the 29th.
LookBackInput ==
    RunInput(<< PlainKind(2) >>,
             [ paroHardCaps |-> << >>, callRatios |-> << >>,
               maxWeekendsPerRotation |-> 2, weekendDefinition |-> DefaultWeekend ],
             { 29 }, [ year |-> 2025, month |-> 6, academicYearStart |-> 2025 ], "Normal")

\* One PGY-2 resident on CORE_NSX in February 2025 whose onService flag is
\* false, under the default configuration.
OffServiceInput ==
    [ RunInput(<< PlainKind(2) >>, DefaultSchedulerConfig, {},
               [ year |-> 2025, month |-> 1, academicYearStart |-> 2024 ], "Normal")
      EXCEPT !.residents[1].onService = FALSE ]

\* One PGY-2 resident on CORE_NSX in February 2025 with a denied leave
\* request for the 1st and 2nd, under the default configuration.
DeniedLeaveInput ==
    RunInput(<< [ PlainKind(2) EXCEPT
                    !.leave = << [ status |-> "Denied", first |-> 1, last |-> 2 ] >> ] >>,
             DefaultSchedulerConfig, {},
             [ year |-> 2025, month |-> 1, academicYearStart |-> 2024 ], "Normal")

Inputs ==
    RosterInputs \cup ConfigInputs
        \cup { SmallMonthInput, LookBackInput, OffServiceInput, DeniedLeaveInput }

-----------------------------------------------------------------------------
(* The state machine                                                       *)

\* initializeCallStats with no existing assignments.
InitializeCallStats(list) ==
    [ id \in { list[i].id : i \in 1..Len(list) } |->
        [ totalCalls |-> 0, weekendCalls |-> 0, holidayCalls |-> 0,
          nightCalls |-> 0, lastCallDate |-> NoDate, consecutiveDays |-> 0,
          callDates |-> << >>, points |-> 0 ] ]

\* No call of getMaxCalls on its own is under way.
IdleMaxCalls ==
    /\ givenWorkingDays = 0
    /\ maxCalls = << >>

\* An AcademicYear not returned (yet).
NoYear == [ id |-> 0, blocks |-> << >> ]

\* No yearly schedule engine has been constructed.
IdleYearly ==
    /\ engine = << >>
    /\ enginePhase = "idle"
    /\ coverageViolations = {}
    /\ returnedYear = NoYear

\* No leave request has been created.
IdleAnalyzer ==
    /\ db = << >>
    /\ now = NoDate
    /\ invocations = << >>
    /\ statusWrites = << >>

\* No callable function has been called.
IdleRpc ==
    /\ firestore = << >>
    /\ cache = << >>
    /\ rpcs = << >>

\* No function of the leave analyzer has been called on its own.
IdleCalls ==
    /\ analysisCall = << >>
    /\ analysisReturn = << >>

Init ==
    /\ IdleMaxCalls
    /\ IdleYearly
    /\ IdleAnalyzer
    /\ IdleRpc
    /\ IdleCalls
    /\ \E inp \in Inputs :
        /\ residents = inp.residents
        /\ config = inp.config
        /\ academicYear = inp.academicYear
        /\ approvedLeave = inp.approvedLeave
        /\ holidays = LoadHolidays(inp.config.holidays, inp.year)
        /\ month = inp.month
        /\ year = inp.year
        /\ staffingLevel = inp.staffingLevel
        /\ callStats = InitializeCallStats(inp.residents)
        /\ assignments = << >>
        /\ dayRequirements = << >>
        /\ selectedResidents = << >>
        /\ pc = [ phase |-> "start", day |-> 0, slot |-> 0 ]
        /\ reordered = [ callStats |-> InitializeCallStats(inp.residents),
                         assignments |-> << >>, selectedResidents |-> << >> ]

\* generateSchedule up to its day loop: the day requirements, sorted.
CalculateAndSort ==
    /\ pc.phase = "start"
    /\ dayRequirements' = SortByPriority(CalculateDayRequirements(DaysInMonth(year, month)))
    /\ pc' = [ phase |-> "days", day |-> 1, slot |-> 0 ]
    /\ UNCHANGED << inputs, callStats, assignments, selectedResidents, reordered >>
    /\ UNCHANGED notMonthly

InDayLoop == pc.phase = "days" /\ pc.day <= Len(dayRequirements)

CurrentDay == dayRequirements[pc.day]

ThisRun == [ callStats |-> callStats, assignments |-> assignments,
             selectedResidents |-> selectedResidents ]

LastSlot == pc.slot + 1 >= GetRequiredResidentCount(CurrentDay.callType)

\* eligibleResidents.length > 0 in selectBestResident, for the run in hand.
SomeEligible ==
    { i \in 1..Len(residents) :
        /\ \A j \in 1..Len(selectedResidents) : selectedResidents[j].id # residents[i].id
        /\ IsEligibleForCall(callStats, residents[i], CurrentDay.date, staffingLevel)
    } # {}

\* The day loop given up at the first slot without an eligible resident.
StopAtUnfilledSlot ==
    IF SomeEligible
    THEN IF LastSlot THEN [ pc EXCEPT !.day = @ + 1, !.slot = 0 ]
                     ELSE [ pc EXCEPT !.slot = @ + 1 ]
    ELSE [ pc EXCEPT !.day = Len(dayRequirements) + 1, !.slot = 0 ]

\* Position after slot pc.slot of the current day.
AfterSlot ==
    IF LastSlot
    THEN [ pc EXCEPT !.day = @ + 1, !.slot = 0 ]
    ELSE [ pc EXCEPT !.slot = @ + 1 ]

\* The same slot in the run on the reversed list.
ReorderedSlot ==
    EndOfDay(ProcessSlot(Reverse(residents), reordered, CurrentDay, staffingLevel),
             LastSlot)

\* if (dayReq.callType === 'None') continue;
SkipDay ==
    /\ InDayLoop
    /\ CurrentDay.callType = "None"
    /\ pc' = [ pc EXCEPT !.day = @ + 1 ]
    /\ UNCHANGED << inputs, callStats, assignments, dayRequirements,
                    selectedResidents, reordered >>
    /\ UNCHANGED notMonthly

\* A slot for which selectBestResident finds a resident: the call, the
\* statistics and the post-call entry.
AssignCall ==
    /\ InDayLoop
    /\ CurrentDay.callType # "None"
    /\ SomeEligible
    /\ LET run == ProcessSlot(residents, ThisRun, CurrentDay, staffingLevel)
       IN  /\ callStats' = run.callStats
           /\ assignments' = run.assignments
           /\ selectedResidents' = EndOfDay(run, LastSlot).selectedResidents
    /\ reordered' = ReorderedSlot
    /\ pc' = AfterSlot
    /\ UNCHANGED << inputs, dayRequirements >>
    /\ UNCHANGED notMonthly

\* if (!bestResident) { console.error(...); continue; }
LeaveUnfilled ==
    /\ InDayLoop
    /\ CurrentDay.callType # "None"
    /\ ~SomeEligible
    /\ selectedResidents' = EndOfDay(ThisRun, LastSlot).selectedResidents
    /\ reordered' = ReorderedSlot
    /\ pc' = AfterSlot
    /\ UNCHANGED << inputs, dayRequirements, callStats, assignments >>
    /\ UNCHANGED notMonthly

\* The day loop is over: generateSchedule returns "assignments".
ReturnSchedule ==
    /\ pc.phase = "days"
    /\ pc.day > Len(dayRequirements)
    /\ pc' = [ pc EXCEPT !.phase = "done" ]
    /\ UNCHANGED << inputs, callStats, assignments, dayRequirements,
                    selectedResidents, reordered >>
    /\ UNCHANGED notMonthly

Next == CalculateAndSort \/ SkipDay \/ AssignCall \/ LeaveUnfilled \/ ReturnSchedule

Spec == Init /\ [][Next]_vars

\* What a step of Next does to the position: the step of CalculateAndSort,
\* of SkipDay, of a slot (AssignCall or LeaveUnfilled), of ReturnSchedule.
Advance ==
    \/ pc.phase = "start" /\ pc' = [ phase |-> "days", day |-> 1, slot |-> 0 ]
    \/ InDayLoop /\ CurrentDay.callType = "None" /\ pc' = [ pc EXCEPT !.day = @ + 1 ]
    \/ InDayLoop /\ CurrentDay.callType # "None" /\ pc' = AfterSlot
    \/ pc.phase = "days" /\ pc.day > Len(dayRequirements)
          /\ pc' = [ pc EXCEPT !.phase = "done" ]

\* generateSchedule is one synchronous call: its position goes on until the
\* function returns.
FairSpec == Spec /\ WF_pc(Advance)

-----------------------------------------------------------------------------
(* Vocabulary of the properties                                            *)

Done == pc.phase = "done"

\* Indices of the calls (non-PostCall entries) of the list.
Calls == { i \in 1..Len(assignments) : assignments[i].type # "PostCall" }

CallsOf(residentId) == { i \in Calls : assignments[i].residentId = residentId }

ResidentIds == { residents[i].id : i \in 1..Len(residents) }

ResidentById(residentId) ==
    residents[CHOOSE i \in 1..Len(residents) : residents[i].id = residentId]

MonthDates == NewDate(year, month, 1)..NewDate(year, month + 1, 0)

\* C1 as stated: in the returned schedule no resident holds a call on a day
\* D and a call on D+1, whatever the order the two days were processed in.
C1_NoCallsOnConsecutiveDays ==
    Done => \A i, j \in Calls :
                assignments[i].residentId = assignments[j].residentId
                    => assignments[j].date # assignments[i].date + 1

\* C2: after every assignment step, every resident holds at most
\* maxCalls(r, W, mode) calls, W being the working days of the block that
\* holds the date of the call the resident was assigned last.
C2_CallsWithinMaxCalls ==
    \A r \in ResidentIds :
        CallsOf(r) # {} =>
            LET last == CHOOSE i \in CallsOf(r) : \A j \in CallsOf(r) : j <= i
            IN  Cardinality(CallsOf(r)) <=
                    GetMaxCalls(ResidentById(r),
                        GetWorkingDaysForBlock(GetCurrentBlock(assignments[last].date)),
                        staffingLevel)

\* A returned schedule in which some resident holds exactly the maxCalls of
\* every block of the month the resident is on CORE_NSX in.
C2_Witness ==
    /\ Done
    /\ \E r \in ResidentIds :
        /\ CallsOf(r) # {}
        /\ \A d \in MonthDates :
              OnCoreRotation(ResidentById(r), d) =>
                  Cardinality(CallsOf(r)) =
                      GetMaxCalls(ResidentById(r),
                          GetWorkingDaysForBlock(GetCurrentBlock(d)), staffingLevel)

\* C3 as stated: the returned list holds no assignment of any type
\* (PostCall included) for a resident on a day of an Approved leave of theirs.
C3_NoAssignmentOnApprovedLeave ==
    Done => \A i \in 1..Len(assignments) :
                ~IsOnLeave(assignments[i].residentId, assignments[i].date)

\* C4 as stated: the run on the reordered residents list returns the same
\* list of assignments.
C4_SameScheduleForReorderedRoster ==
    Done => reordered.assignments = assignments

\* C5: a resident with isChief and callExempt holds no assignment at all.
C5_ExemptChiefHoldsNoCall ==
    \A i \in 1..Len(assignments) :
        LET r == ResidentById(assignments[i].residentId)
        IN  ~(r.isChief /\ r.callExempt)

\* A returned schedule with calls in it, for a roster with a call-exempt
\* chief who is on CORE_NSX all month.
C5_Witness ==
    /\ Done
    /\ Calls # {}
    /\ \E i \in 1..Len(residents) :
        /\ residents[i].isChief /\ residents[i].callExempt
        /\ \A d \in MonthDates : OnCoreRotation(residents[i], d)

\* The run in hand is the small-month scenario.
IsSmallMonth ==
    /\ residents = SmallMonthInput.residents
    /\ config = SmallMonthInput.config
    /\ academicYear = SmallMonthInput.academicYear
    /\ approvedLeave = SmallMonthInput.approvedLeave
    /\ month = SmallMonthInput.month
    /\ year = SmallMonthInput.year
    /\ staffingLevel = SmallMonthInput.staffingLevel

\* Days of the month of the given call type that hold a call.
FilledDays(callType) ==
    { d \in MonthDates : /\ DayRequirementFor(d).callType = callType
                         /\ \E i \in Calls : assignments[i].date = d }

DaysOfType(callType) ==
    { d \in MonthDates : DayRequirementFor(d).callType = callType }

SmallMonthLimitsKept ==
    \A r \in ResidentIds :
        /\ Cardinality(CallsOf(r)) <= 7
        /\ Cardinality({ i \in CallsOf(r) : assignments[i].type = "Weekend" }) <= 2

\* C6 as stated: in the small-month scenario every night and every weekend
\* day of February 2025 is filled, with at most 7 calls and at most 2
\* weekend calls per resident.
C6_SmallMonthAllFilled ==
    (Done /\ IsSmallMonth) =>
        /\ FilledDays("Night") = DaysOfType("Night")
        /\ FilledDays("Weekend") = DaysOfType("Weekend")
        /\ SmallMonthLimitsKept

\* C6, amended: in the small-month scenario every night (Mon-Thu) is filled
\* but only 8 of the 12 weekend days are (4 residents with at most 2 weekend
\* calls each), with at most 7 calls and at most 2 weekend calls per
\* resident.
C6_SmallMonthWeekendsShort ==
    (Done /\ IsSmallMonth) =>
        /\ FilledDays("Night") = DaysOfType("Night")
        /\ Cardinality(DaysOfType("Weekend")) = 12
        /\ Cardinality(FilledDays("Weekend")) = 8
        /\ SmallMonthLimitsKept

\* The small-month scenario has run to its end.
C6_Witness == Done /\ IsSmallMonth /\ Calls # {}

\* C7 as stated: every resident holds at most maxWeekendsPerRotation
\* Weekend-type calls, for every configured value, 0 included.
C7_WeekendCallsWithinConfiguredLimit ==
    \A r \in ResidentIds :
        Cardinality({ i \in CallsOf(r) : assignments[i].type = "Weekend" })
            <= config.monthlySchedulerConfig.maxWeekendsPerRotation

\* C8: a call on day D goes only to a resident whose rotation in the block
\* that holds D is CORE_NSX; no block or no rotation, no call.
C8_CallsOnlyOnCoreRotation ==
    \A i \in Calls :
        LET block == GetCurrentBlock(assignments[i].date)
        IN  /\ block # NoBlock
            /\ FindRotation(block, assignments[i].residentId).rotationType = "CORE_NSX"

\* A returned schedule in which a resident holds calls and is, on a call day
\* of the same month, off service or without a rotation.
C8_Witness ==
    /\ Done
    /\ \E r \in ResidentIds :
        /\ CallsOf(r) # {}
        /\ \E d \in MonthDates :
            /\ DayRequirementFor(d).callType # "None"
            /\ ~OnCoreRotation(ResidentById(r), d)

\* C9 as stated: every assignment, PostCall entries included, carries the
\* team of the resident's rotation in the block that holds its own date.
C9_TeamOfOwnDate ==
    \A i \in 1..Len(assignments) :
        assignments[i].team =
            GetResidentTeam(assignments[i].residentId, assignments[i].date)

\* The coverage each call type asks for.
StatedCoverage(callType) ==
    CASE callType = "Holiday" -> 2
      [] callType = "Weekend" -> 1
      [] callType = "Night"   -> 1
      [] OTHER                -> 0

\* C10: a resident holds at most one call per day (so the two residents of a
\* holiday are distinct) and no day holds more calls than its coverage:
\* Holiday 2, Weekend 1, Night 1, None 0.
C10_OneCallPerDayWithinCoverage ==
    /\ \A i, j \in Calls :
          (/\ assignments[i].residentId = assignments[j].residentId
           /\ assignments[i].date = assignments[j].date) => i = j
    /\ \A d \in MonthDates :
          Cardinality({ i \in Calls : assignments[i].date = d })
              <= StatedCoverage(DayRequirementFor(d).callType)

\* A returned schedule with a holiday covered by two residents.
C10_Witness ==
    /\ Done
    /\ \E i, j \in Calls :
        /\ assignments[i].type = "Holiday"
        /\ assignments[j].date = assignments[i].date
        /\ assignments[j].residentId # assignments[i].residentId

-----------------------------------------------------------------------------
(* getMaxCalls on its own: called once per staffing level for a resident,  *)
(* a working-day count and a configuration.                                *)

\* No run of generateSchedule is under way.
IdleRun ==
    /\ academicYear = [ id |-> 0, blocks |-> << >> ]
    /\ approvedLeave = << >>
    /\ holidays = {}
    /\ month = 0
    /\ year = 0
    /\ staffingLevel = "Normal"
    /\ callStats = << >>
    /\ assignments = << >>
    /\ dayRequirements = << >>
    /\ selectedResidents = << >>
    /\ pc = [ phase |-> "idle", day |-> 0, slot |-> 0 ]
    /\ reordered = [ callStats |-> << >>, assignments |-> << >>,
                     selectedResidents |-> << >> ]

\* No monthly call scheduler has been constructed.
IdleMonthly ==
    /\ residents = << >>
    /\ config = [ holidays |-> {} ]
    /\ IdleRun

\* The largest working-day count getMaxCalls is called with.
MaxWorkingDays == 28

\* paroHardCaps: none, one rule, two disjoint rules, two overlapping rules.
ParoHardCapChoices ==
    { << >>,
      << [ minDays |-> 1, maxDays |-> 31, calls |-> 7 ] >>,
      << [ minDays |-> 1, maxDays |-> 27, calls |-> 2 ],
         [ minDays |-> 28, maxDays |-> 31, calls |-> 3 ] >>,
      << [ minDays |-> 20, maxDays |-> 31, calls |-> 6 ],
         [ minDays |-> 1, maxDays |-> 31, calls |-> 9 ] >> }

\* callRatios: none, the default ones, large ones, and ratios of 1 and 0.
CallRatioChoices ==
    { << >>,
      (2 :> 5) @@ (3 :> 4) @@ (4 :> 3) @@ (5 :> 3),
      (2 :> 10) @@ (3 :> 9),
      (2 :> 1) @@ (5 :> 0) }

MaxCallsConfigs ==
    { [ monthlySchedulerConfig |->
          [ paroHardCaps |-> caps, callRatios |-> ratios,
            maxWeekendsPerRotation |-> 2, weekendDefinition |-> DefaultWeekend ],
        holidays |-> {} ] :
      caps \in ParoHardCapChoices, ratios \in CallRatioChoices }

MaxCallsResidents ==
    [ id : { 1 }, pgyLevel : { 1, 2, 5 }, isChief : BOOLEAN, callExempt : BOOLEAN,
      onService : { TRUE } ]

MaxCallsInit ==
    /\ IdleRun
    /\ IdleYearly
    /\ IdleAnalyzer
    /\ IdleRpc
    /\ IdleCalls
    /\ config \in MaxCallsConfigs
    /\ \E r \in MaxCallsResidents : residents = << r >>
    /\ givenWorkingDays \in 0..MaxWorkingDays
    /\ maxCalls = << >>

\* this.getMaxCalls(resident, givenWorkingDays, level), its result kept.
CallGetMaxCalls ==
    \E level \in StaffingLevels :
        /\ Len(residents) = 1
        /\ level \notin DOMAIN maxCalls
        /\ maxCalls' = maxCalls @@ (level :> GetMaxCalls(residents[1], givenWorkingDays, level))
        /\ UNCHANGED << notMaxCalls, givenWorkingDays >>

MaxCallsNext == CallGetMaxCalls

MaxCallsSpec == MaxCallsInit /\ [][MaxCallsNext]_vars

\* C11: for every resident, working-day count and configuration, getMaxCalls
\* in Shortage mode is at least getMaxCalls in Normal mode.
C11_ShortageAtLeastNormal ==
    (DOMAIN maxCalls = StaffingLevels) => maxCalls["Shortage"] >= maxCalls["Normal"]

\* Both modes were computed for a resident the PGY target binds in Normal
\* mode: Shortage allows strictly more.
C11_Witness ==
    /\ DOMAIN maxCalls = StaffingLevels
    /\ maxCalls["Shortage"] > maxCalls["Normal"]

\* The stated reference for getMaxCalls: the cap of the first rule of
\* paroHardCaps that holds W working days, 8 without such a rule.
ReferenceParoCap(W) ==
    LET rules == config.monthlySchedulerConfig.paroHardCaps
        Holds(i) == rules[i].minDays <= W /\ W <= rules[i].maxDays
    IN  IF \A i \in DOMAIN rules : ~Holds(i) THEN 8
        ELSE rules[CHOOSE i \in DOMAIN rules :
                       Holds(i) /\ \A j \in 1..(i - 1) : ~Holds(j)].calls

ReferenceMaxCalls(resident, W, level) ==
    LET ratios == config.monthlySchedulerConfig.callRatios
    IN  IF resident.isChief /\ resident.callExempt THEN 0
        ELSE IF resident.pgyLevel \notin DOMAIN ratios THEN ReferenceParoCap(W)
        ELSE IF level = "Shortage" THEN ReferenceParoCap(W)
        ELSE IF W \div ratios[resident.pgyLevel] < ReferenceParoCap(W)
             THEN W \div ratios[resident.pgyLevel]
             ELSE ReferenceParoCap(W)

\* The quotient W / ratio of the reference exists.
ReferenceDefined(resident) ==
    LET ratios == config.monthlySchedulerConfig.callRatios
    IN  resident.pgyLevel \in DOMAIN ratios => ratios[resident.pgyLevel] # 0

\* C28: getMaxCalls equals the reference for every input: 0 for a resident
\* with isChief and callExempt; otherwise paroCap is the calls of the first
\* paroHardCaps rule with minDays <= W <= maxDays (8 if none matches); without
\* a callRatios entry for the PGY level the result is paroCap in both modes;
\* otherwise Normal gives min(paroCap, floor(W / ratio)) and Shortage gives
\* paroCap. Stated wherever the quotient exists (the ratio is not 0).
C28_GetMaxCallsIsTheReference ==
    ReferenceDefined(residents[1])
    => \A level \in DOMAIN maxCalls :
           maxCalls[level] = ReferenceMaxCalls(residents[1], givenWorkingDays, level)

\* The stated example: PGY-2, ratio 10, W = 28, cap 7 gives 2 in Normal mode
\* and 7 in Shortage mode.
C28_Witness ==
    /\ residents[1].pgyLevel = 2
    /\ ~residents[1].isChief
    /\ CallRatioOf(2) = 10
    /\ ParoHardCapFor(28) = 7
    /\ givenWorkingDays = 28
    /\ DOMAIN maxCalls = StaffingLevels
    /\ maxCalls["Normal"] = 2
    /\ maxCalls["Shortage"] = 7

-----------------------------------------------------------------------------
(* The yearly schedule engine (YearlyScheduleEngine).  Blocks and residents *)
(* are numbered from 1 here: block b is schedule[b - 1] of the code and     *)
(* resident index i is resIndex i - 1.                                      *)

\* The largest roster given to the yearly engine.
MaxYearlyResidents == 3

\* schedule[block][resIndex] === null
NullSlot ==
    [ residentId |-> 0, rotationName |-> "null", rotationType |-> "null",
      team |-> NoTeam ]

\* Array(BLOCKS_PER_YEAR).fill(null).map(() => Array(residents.length).fill(null))
EmptySchedule(n) == [ b \in 1..BLOCKS_PER_YEAR |-> [ i \in 1..n |-> NullSlot ] ]

IsSlotEmpty(schedule, block, resIndex) == schedule[block][resIndex] = NullSlot

\* assign without the test of isSlotEmpty: the slot takes the rotation.
AssignOverwriting(schedule, list, block, resIndex, rotation) ==
    [ schedule EXCEPT ![block][resIndex] =
        [ residentId |-> list[resIndex].id,
          rotationName |-> rotation.rotationName,
          rotationType |-> rotation.rotationType,
          team |-> NoTeam ] ]

\* assign: the slot takes the rotation only when it is empty.
Assign(schedule, list, block, resIndex, rotation) ==
    IF IsSlotEmpty(schedule, block, resIndex)
    THEN [ schedule EXCEPT ![block][resIndex] =
             [ residentId |-> list[resIndex].id,
               rotationName |-> rotation.rotationName,
               rotationType |-> rotation.rotationType,
               team |-> NoTeam ] ]
    ELSE schedule

\* Phases 1 and 2: rules.forEach(rule => residents.forEach(...assign...)).
\* A rule whose block is outside 1..13 makes isSlotEmpty read a row that
\* does not exist, which throws a TypeError at the first resident the rule
\* applies to; the rules before it have been applied.
RECURSIVE ApplyRules(_, _, _, _, _)
ApplyRules(schedule, list, rules, k, rotationType) ==
    IF k > Len(rules) THEN [ schedule |-> schedule, threw |-> FALSE ]
    ELSE LET rule == rules[k]
             matching == { i \in 1..Len(list) : list[i].pgyLevel \in rule.pgyLevels }
             RECURSIVE ForEachResident(_, _)
             ForEachResident(sch, i) ==
                 IF i > Len(list) THEN sch
                 ELSE ForEachResident(
                          IF i \in matching
                          THEN Assign(sch, list, rule.blockNumber, i,
                                      [ rotationName |-> rule.rotationName,
                                        rotationType |-> rotationType ])
                          ELSE sch,
                          i + 1)
         IN  IF matching # {} /\ rule.blockNumber \notin 1..BLOCKS_PER_YEAR
             THEN [ schedule |-> schedule, threw |-> TRUE ]
             ELSE ApplyRules(ForEachResident(schedule, 1), list, rules, k + 1,
                             rotationType)

\* Phase 3: the indices of the residents of PGY >= 4, by descending PGY level;
\* the sort is stable, so equal levels keep list order.
Seniors(list) ==
    LET top == Max(4, CHOOSE m \in { list[i].pgyLevel : i \in 1..Len(list) } \cup { 4 } :
                        \A i \in 1..Len(list) : list[i].pgyLevel <= m)
        indices == [ i \in 1..Len(list) |-> i ]
        RECURSIVE FromLevel(_)
        FromLevel(level) ==
            IF level < 4 THEN << >>
            ELSE SelectSeq(indices, LAMBDA i : list[i].pgyLevel = level)
                 \o FromLevel(level - 1)
    IN  FromLevel(top)

\* Phase 3: senior number idx (from 0) is offered block 6 when idx is even
\* and block 7 when it is odd, and takes it when the slot is empty.
AssignHolidayBlocks(schedule, list) ==
    LET seniors == Seniors(list)
        RECURSIVE ForEachSenior(_, _)
        ForEachSenior(sch, k) ==
            IF k > Len(seniors) THEN sch
            ELSE LET blockToAssign == IF (k - 1) % 2 = 0 THEN 6 ELSE 7
                 IN  ForEachSenior(
                         IF IsSlotEmpty(sch, blockToAssign, seniors[k])
                         THEN Assign(sch, list, blockToAssign, seniors[k],
                                     [ rotationName |-> "Holiday Leave",
                                       rotationType |-> "HOLIDAY_LEAVE" ])
                         ELSE sch,
                         k + 1)
    IN  ForEachSenior(schedule, 1)

\* Phase 4 for the juniors only.
AssignCoreToJuniorsOnly(schedule, list) ==
    [ b \in 1..BLOCKS_PER_YEAR |->
        [ i \in 1..Len(list) |->
            IF IsSlotEmpty(schedule, b, i) /\ list[i].pgyLevel < 4
            THEN [ residentId |-> list[i].id, rotationName |-> "Neurosurgery - Core",
                   rotationType |-> "CORE_NSX", team |-> NoTeam ]
            ELSE schedule[b][i] ] ]

\* Phase 4: every slot still empty becomes a core neurosurgery rotation.
AssignCoreNeurosurgeryRotations(schedule, list) ==
    [ b \in 1..BLOCKS_PER_YEAR |->
        [ i \in 1..Len(list) |->
            IF IsSlotEmpty(schedule, b, i)
            THEN [ residentId |-> list[i].id, rotationName |-> "Neurosurgery - Core",
                   rotationType |-> "CORE_NSX", team |-> NoTeam ]
            ELSE schedule[b][i] ] ]

\* Phase 6 on one block, giving Blue when the two counts are equal.
BalanceBlockBlueFirst(row) ==
    LET Count(team) ==
            Cardinality({ i \in 1..Len(row) :
                            row[i].rotationType = "CORE_NSX" /\ row[i].team = team })
        RECURSIVE SecondPass(_, _, _, _)
        SecondPass(r, i, redTeamCount, blueTeamCount) ==
            IF i > Len(r) THEN r
            ELSE IF r[i].rotationType = "CORE_NSX" /\ r[i].team = NoTeam
                 THEN IF redTeamCount < blueTeamCount
                      THEN SecondPass([ r EXCEPT ![i].team = "Red" ], i + 1,
                                      redTeamCount + 1, blueTeamCount)
                      ELSE SecondPass([ r EXCEPT ![i].team = "Blue" ], i + 1,
                                      redTeamCount, blueTeamCount + 1)
                 ELSE SecondPass(r, i + 1, redTeamCount, blueTeamCount)
    IN  SecondPass(row, 1, Count("Red"), Count("Blue"))

\* Phase 6 on one block: count the CORE_NSX rows already tagged Red and Blue,
\* then tag the untagged CORE_NSX rows in list order, Red when
\* redTeamCount <= blueTeamCount and Blue otherwise.
BalanceBlock(row) ==
    LET Count(team) ==
            Cardinality({ i \in 1..Len(row) :
                            row[i].rotationType = "CORE_NSX" /\ row[i].team = team })
        RECURSIVE SecondPass(_, _, _, _)
        SecondPass(r, i, redTeamCount, blueTeamCount) ==
            IF i > Len(r) THEN r
            ELSE IF r[i].rotationType = "CORE_NSX" /\ r[i].team = NoTeam
                 THEN IF redTeamCount <= blueTeamCount
                      THEN SecondPass([ r EXCEPT ![i].team = "Red" ], i + 1,
                                      redTeamCount + 1, blueTeamCount)
                      ELSE SecondPass([ r EXCEPT ![i].team = "Blue" ], i + 1,
                                      redTeamCount, blueTeamCount + 1)
                 ELSE SecondPass(r, i + 1, redTeamCount, blueTeamCount)
    IN  SecondPass(row, 1, Count("Red"), Count("Blue"))

\* this.schedule[block].filter(a => a !== null)
AssignmentsInBlock(schedule, block) ==
    SelectSeq(schedule[block], LAMBDA a : a # NullSlot)

\* filterResidentsForRule(...).length: the residents of the list with a
\* CORE_NSX row in the block whom the rule applies to.
FilterResidentsForRule(list, assignmentsInBlock, rule) ==
    LET residentIds ==
            { assignmentsInBlock[k].residentId :
                k \in { j \in 1..Len(assignmentsInBlock) :
                          assignmentsInBlock[j].rotationType = "CORE_NSX" } }
    IN  Cardinality({ i \in 1..Len(list) :
            /\ list[i].id \in residentIds
            /\ CASE rule.appliesTo = "SPECIALTY" ->
                        list[i].specialty = rule.specialty
                 [] rule.appliesTo = "SPECIALTY_PGY_MIN" ->
                        /\ list[i].specialty = rule.specialty
                        /\ list[i].pgyLevel >= rule.minPgyLevel
                 [] OTHER -> TRUE })

\* The external rotators whose stay overlaps the block.
GetExternalRotatorsForBlock(externalRotators, blockDates, block) ==
    Cardinality({ k \in 1..Len(externalRotators) :
                    /\ externalRotators[k].startDate <= blockDates[block].end
                    /\ externalRotators[k].endDate >= blockDates[block].start })

\* validateBlockCoverage: no enabled rule is short of its minCount.
ValidateBlockCoverage(e, assignmentsInBlock, block) ==
    \A k \in 1..Len(e.config.coverageRules.rotationBlock) :
        LET rule == e.config.coverageRules.rotationBlock[k]
        IN  rule.isEnabled =>
                ~(FilterResidentsForRule(e.residents, assignmentsInBlock, rule)
                    + GetExternalRotatorsForBlock(e.externalRotators, e.blockDates, block)
                  < rule.minCount)

\* formatScheduleForFirestore: the 13 blocks with their rows, and the metadata.
FormatScheduleForFirestore(e) ==
    [ id |-> e.academicYearId,
      blocks |-> [ b \in 1..BLOCKS_PER_YEAR |->
                     [ blockNumber |-> b,
                       startDate |-> e.blockDates[b].start,
                       endDate |-> e.blockDates[b].end,
                       assignments |-> AssignmentsInBlock(e.schedule, b) ] ],
      metadata |-> [ totalResidents |-> Len(e.residents),
                     totalExternalRotators |-> Len(e.externalRotators),
                     version |-> "1.0.0" ] ]

\* What a resident given to the yearly engine can look like.
YearlyResidentKinds ==
    { [ pgyLevel |-> 2, specialty |-> "Neurosurgery" ],
      [ pgyLevel |-> 4, specialty |-> "Neurosurgery" ],
      [ pgyLevel |-> 5, specialty |-> "Orthopedics" ] }

YearlyRosters ==
    UNION { [ 1..n -> YearlyResidentKinds ] : n \in 0..MaxYearlyResidents }

\* yearlySchedulerConfig.mandatoryRotations: none; one rule; two rules for
\* the same block (a holiday block); a rule for a block that does not exist.
MandatoryRotationChoices ==
    { << >>,
      << [ blockNumber |-> 3, pgyLevels |-> { 2 }, rotationName |-> "ICU" ] >>,
      << [ blockNumber |-> 6, pgyLevels |-> { 4, 5 }, rotationName |-> "Trauma" ],
         [ blockNumber |-> 6, pgyLevels |-> { 5 }, rotationName |-> "Neuro-ICU" ] >>,
      << [ blockNumber |-> 14, pgyLevels |-> { 2 }, rotationName |-> "Elective" ] >> }

\* yearlySchedulerConfig.examLeave: none; a rule for the block of a
\* mandatory rotation; a rule for a holiday block.
ExamLeaveChoices ==
    { << >>,
      << [ blockNumber |-> 3, pgyLevels |-> { 2, 4 }, rotationName |-> "Exam Leave" ] >>,
      << [ blockNumber |-> 7, pgyLevels |-> { 5 }, rotationName |-> "Exam Leave" ] >> }

\* coverageRules.rotationBlock
CoverageRuleChoices ==
    { << >>,
      << [ isEnabled |-> TRUE, appliesTo |-> "SPECIALTY_PGY_MIN",
           specialty |-> "Neurosurgery", minPgyLevel |-> 4, minCount |-> 1 ] >>,
      << [ isEnabled |-> FALSE, appliesTo |-> "ALL",
           specialty |-> "", minPgyLevel |-> 0, minCount |-> 9 ],
         [ isEnabled |-> TRUE, appliesTo |-> "SPECIALTY",
           specialty |-> "Neurosurgery", minPgyLevel |-> 0, minCount |-> 2 ] >> }

\* externalRotators: none, or one who stays for block 3 of the year.
ExternalRotatorChoices(startYear) ==
    { << >>,
      << [ startDate |-> BlockDates(startYear)[3].start,
           endDate |-> BlockDates(startYear)[3].end ] >> }

\* new YearlyScheduleEngine(residents, externalRotators, config, academicYearId)
NewYearlyScheduleEngine(kinds, externalRotators, mandatoryRotations, examLeave, rotationBlock, startYear) ==
    [ residents |-> [ i \in 1..Len(kinds) |->
                        [ id |-> i, pgyLevel |-> kinds[i].pgyLevel,
                          specialty |-> kinds[i].specialty ] ],
      externalRotators |-> externalRotators,
      config |-> [ yearlySchedulerConfig |->
                     [ mandatoryRotations |-> mandatoryRotations,
                       examLeave |-> examLeave ],
                   coverageRules |-> [ rotationBlock |-> rotationBlock ] ],
      academicYearId |-> startYear,
      schedule |-> EmptySchedule(Len(kinds)),
      blockDates |-> BlockDates(startYear) ]

\* Two PGY-4 residents listed with the larger id first, and no rule.
SeniorsListedByDescendingId ==
    [ NewYearlyScheduleEngine(<< [ pgyLevel |-> 4, specialty |-> "Neurosurgery" ],
                                 [ pgyLevel |-> 4, specialty |-> "Neurosurgery" ] >>,
                              << >>, << >>, << >>, << >>, 2024)
      EXCEPT !.residents[1].id = 2, !.residents[2].id = 1 ]

YearlyEngines ==
    { NewYearlyScheduleEngine(kinds, ext, mandatory, exam, rules, 2024) :
        kinds \in YearlyRosters, ext \in ExternalRotatorChoices(2024),
        mandatory \in MandatoryRotationChoices, exam \in ExamLeaveChoices,
        rules \in CoverageRuleChoices }
    \cup { SeniorsListedByDescendingId }

YearlyInit ==
    /\ IdleMonthly
    /\ IdleMaxCalls
    /\ IdleAnalyzer
    /\ IdleRpc
    /\ IdleCalls
    /\ engine \in YearlyEngines
    /\ enginePhase = "phase1"
    /\ coverageViolations = {}
    /\ returnedYear = NoYear

\* The next phase, or the catch of generateSchedule when the phase threw.
AfterPhase(out, next) ==
    /\ engine' = [ engine EXCEPT !.schedule = out.schedule ]
    /\ enginePhase' = IF out.threw THEN "thrown" ELSE next
    /\ UNCHANGED << coverageViolations, returnedYear, notYearly >>

\* phase0_PlaceExternalRotators (which places nothing) and
\* phase1_AssignMandatoryRotations
Phase1_AssignMandatoryRotations ==
    /\ enginePhase = "phase1"
    /\ AfterPhase(ApplyRules(engine.schedule, engine.residents,
                             engine.config.yearlySchedulerConfig.mandatoryRotations,
                             1, "MANDATORY_OFF_SERVICE"),
                  "phase2")

Phase2_AssignExamBlocks ==
    /\ enginePhase = "phase2"
    /\ AfterPhase(ApplyRules(engine.schedule, engine.residents,
                             engine.config.yearlySchedulerConfig.examLeave,
                             1, "EXAM_LEAVE"),
                  "phase3")

Phase3_AssignHolidayBlocks ==
    /\ enginePhase = "phase3"
    /\ AfterPhase([ schedule |-> AssignHolidayBlocks(engine.schedule, engine.residents),
                    threw |-> FALSE ],
                  "phase4")

\* phase4_AssignCoreNeurosurgeryRotations and
\* phase5_AssignFlexibleOffServiceRotations (which moves nothing)
Phase4_AssignCoreNeurosurgeryRotations ==
    /\ enginePhase = "phase4"
    /\ AfterPhase([ schedule |-> AssignCoreNeurosurgeryRotations(engine.schedule,
                                                                engine.residents),
                    threw |-> FALSE ],
                  "phase6")

Phase6_BalanceTeams ==
    /\ enginePhase = "phase6"
    /\ AfterPhase([ schedule |-> [ b \in 1..BLOCKS_PER_YEAR |->
                                     BalanceBlock(engine.schedule[b]) ],
                    threw |-> FALSE ],
                  "phase7")

\* phase7_ValidateAndFinalize: the blocks whose coverage violation is
\* reported on the console; the schedule is left as it is.
Phase7_ValidateAndFinalize ==
    /\ enginePhase = "phase7"
    /\ coverageViolations' =
          { b \in 1..BLOCKS_PER_YEAR :
              ~ValidateBlockCoverage(engine, AssignmentsInBlock(engine.schedule, b), b) }
    /\ enginePhase' = "format"
    /\ UNCHANGED << engine, returnedYear, notYearly >>

\* return this.formatScheduleForFirestore()
ReturnAcademicYear ==
    /\ enginePhase = "format"
    /\ returnedYear' = FormatScheduleForFirestore(engine)
    /\ enginePhase' = "returned"
    /\ UNCHANGED << engine, coverageViolations, notYearly >>

YearlyNext ==
    \/ Phase1_AssignMandatoryRotations
    \/ Phase2_AssignExamBlocks
    \/ Phase3_AssignHolidayBlocks
    \/ Phase4_AssignCoreNeurosurgeryRotations
    \/ Phase6_BalanceTeams
    \/ Phase7_ValidateAndFinalize
    \/ ReturnAcademicYear

YearlySpec == YearlyInit /\ [][YearlyNext]_vars

\* The engine's generateSchedule has returned.
YearReturned == enginePhase = "returned"

\* The rows of a block of the returned year.
RowsOf(b) == returnedYear.blocks[b].assignments

\* C12: the returned year has 13 blocks and, in each of them, exactly one
\* RotationAssignment for every resident of the roster.
C12_OneAssignmentPerBlockAndResident ==
    YearReturned =>
        /\ Len(returnedYear.blocks) = BLOCKS_PER_YEAR
        /\ \A b \in 1..BLOCKS_PER_YEAR :
              /\ Len(RowsOf(b)) = Len(engine.residents)
              /\ \A i \in 1..Len(engine.residents) :
                    Cardinality({ k \in 1..Len(RowsOf(b)) :
                        RowsOf(b)[k].residentId = engine.residents[i].id }) = 1

\* A returned year for a roster of at least two residents in which some row
\* is a mandatory rotation, some an exam leave and some a holiday leave.
C12_Witness ==
    /\ YearReturned
    /\ Len(engine.residents) >= 2
    /\ \A t \in { "MANDATORY_OFF_SERVICE", "EXAM_LEAVE", "HOLIDAY_LEAVE" } :
          \E b \in 1..BLOCKS_PER_YEAR : \E k \in 1..Len(RowsOf(b)) :
              RowsOf(b)[k].rotationType = t

\* The CORE_NSX rows of a block of the returned year that carry the team.
CoreRowsOn(b, team) ==
    { k \in 1..Len(RowsOf(b)) :
        RowsOf(b)[k].rotationType = "CORE_NSX" /\ RowsOf(b)[k].team = team }

\* C13: in every block of the returned year every CORE_NSX row carries a
\* team, and Red has as many rows as Blue or one more.
C13_TeamsBalancedRedFirst ==
    YearReturned =>
        \A b \in 1..BLOCKS_PER_YEAR :
            /\ CoreRowsOn(b, NoTeam) = {}
            /\ Cardinality(CoreRowsOn(b, "Red")) - Cardinality(CoreRowsOn(b, "Blue"))
                  \in { 0, 1 }

\* A returned year with a block of an odd number of CORE_NSX rows, three or
\* more, and a block of an even number of them.
C13_Witness ==
    /\ YearReturned
    /\ \E b \in 1..BLOCKS_PER_YEAR :
          /\ Cardinality(CoreRowsOn(b, "Red")) = 2
          /\ Cardinality(CoreRowsOn(b, "Blue")) = 1
    /\ \E b \in 1..BLOCKS_PER_YEAR :
          /\ Cardinality(CoreRowsOn(b, "Red")) = 1
          /\ Cardinality(CoreRowsOn(b, "Blue")) = 1

\* The blocks the metadata of an AcademicYear records a coverage violation
\* for.
RecordedViolations(academicYearReturned) ==
    IF "coverageViolations" \in DOMAIN academicYearReturned.metadata
    THEN academicYearReturned.metadata.coverageViolations
    ELSE {}

\* C14 as stated: every block phase 7 found short of a coverage rule is
\* recorded in the metadata of the returned AcademicYear.
C14_ViolationsRecordedInMetadata ==
    YearReturned => coverageViolations \subseteq RecordedViolations(returnedYear)

\* The rules of a list that name the block and the PGY level of the resident
\* of the index, by their place in the list.
MatchingRules(rules, resIndex, b) ==
    { k \in 1..Len(rules) : /\ rules[k].blockNumber = b
                            /\ engine.residents[resIndex].pgyLevel \in rules[k].pgyLevels }

\* The first of a non-empty set of rules of a list.
FirstRule(rules, matching) ==
    rules[CHOOSE k \in matching : \A j \in matching : k <= j]

Cells == (1..BLOCKS_PER_YEAR) \X (1..Len(engine.residents))

\* C32: a cell of the grid, once assigned in some phase, keeps its
\* rotationType and rotationName in every later phase (only its team tag may
\* be added); in the returned year a resident matching a mandatory rule for a
\* block holds the first such rule's rotation as MANDATORY_OFF_SERVICE, also
\* when an exam-leave rule matches; a resident matching exam-leave rules
\* only holds the first of them; holiday leave and CORE_NSX are found only
\* in cells no rule matched.
C32_AssignedCellsAreKept ==
    /\ [][\A c \in Cells :
            engine.schedule[c[1]][c[2]] # NullSlot =>
                /\ engine'.schedule[c[1]][c[2]].rotationType
                      = engine.schedule[c[1]][c[2]].rotationType
                /\ engine'.schedule[c[1]][c[2]].rotationName
                      = engine.schedule[c[1]][c[2]].rotationName
                /\ engine'.schedule[c[1]][c[2]].residentId
                      = engine.schedule[c[1]][c[2]].residentId]_vars
    /\ [](YearReturned =>
            \A c \in Cells :
                LET cell == engine.schedule[c[1]][c[2]]
                    mandatory == engine.config.yearlySchedulerConfig.mandatoryRotations
                    exam == engine.config.yearlySchedulerConfig.examLeave
                    m == MatchingRules(mandatory, c[2], c[1])
                    e == MatchingRules(exam, c[2], c[1])
                IN  /\ m # {} =>
                          /\ cell.rotationType = "MANDATORY_OFF_SERVICE"
                          /\ cell.rotationName = FirstRule(mandatory, m).rotationName
                    /\ m = {} /\ e # {} =>
                          /\ cell.rotationType = "EXAM_LEAVE"
                          /\ cell.rotationName = FirstRule(exam, e).rotationName
                    /\ m = {} /\ e = {} =>
                          cell.rotationType \in { "HOLIDAY_LEAVE", "CORE_NSX" })

\* A returned year in which a resident matches a mandatory rule and an
\* exam-leave rule for the same block, another cell holds an exam leave and
\* another a holiday leave.
C32_Witness ==
    /\ YearReturned
    /\ \E c \in Cells :
          /\ MatchingRules(engine.config.yearlySchedulerConfig.mandatoryRotations,
                           c[2], c[1]) # {}
          /\ MatchingRules(engine.config.yearlySchedulerConfig.examLeave,
                           c[2], c[1]) # {}
    /\ \A t \in { "EXAM_LEAVE", "HOLIDAY_LEAVE" } :
          \E c \in Cells : engine.schedule[c[1]][c[2]].rotationType = t

\* The rank (from 0) of a senior among the residents of PGY >= 4, by
\* descending pgyLevel and, for equal levels, ascending id.
SeniorRank(i) ==
    Cardinality({ j \in 1..Len(engine.residents) :
        /\ engine.residents[j].pgyLevel >= 4
        /\ \/ engine.residents[j].pgyLevel > engine.residents[i].pgyLevel
           \/ /\ engine.residents[j].pgyLevel = engine.residents[i].pgyLevel
              /\ engine.residents[j].id < engine.residents[i].id })

\* The cell was filled by a mandatory or an exam-leave rule.
FilledByRule(b, i) ==
    \/ MatchingRules(engine.config.yearlySchedulerConfig.mandatoryRotations, i, b) # {}
    \/ MatchingRules(engine.config.yearlySchedulerConfig.examLeave, i, b) # {}

\* C33: in the returned year HOLIDAY_LEAVE is held only by residents of
\* pgyLevel >= 4 and only in blocks 6 and 7; the senior of rank k (by
\* descending pgyLevel, ties by ascending id, whatever the list order) holds
\* it in block 6 when k is even and in block 7 when k is odd, unless a rule
\* had filled that cell, and in no other block.
C33_HolidayBlocksBySeniorRank ==
    YearReturned =>
        \A c \in Cells :
            LET i == c[2]
                offered == IF SeniorRank(i) % 2 = 0 THEN 6 ELSE 7
            IN  engine.schedule[c[1]][i].rotationType = "HOLIDAY_LEAVE"
                    <=> /\ engine.residents[i].pgyLevel >= 4
                        /\ c[1] = offered
                        /\ ~FilledByRule(c[1], i)

\* ---------------------------------------------------------------------------
\* The vacation and leave analyzer (vacation-analyzer): its pure parts.
\* Timestamps are days (every stored Timestamp is a midnight); Date.now() is
\* a day with a positive time of day.
\* ---------------------------------------------------------------------------

Range(seq) == { seq[k] : k \in DOMAIN seq }

RECURSIVE FlattenSeq(_)
FlattenSeq(seqs) ==
    IF seqs = << >> THEN << >> ELSE Head(seqs) \o FlattenSeq(Tail(seqs))

\* [...new Set(seq)]: the distinct elements in the order of first appearance.
RECURSIVE Distinct(_)
Distinct(seq) ==
    IF seq = << >> THEN << >>
    ELSE LET before == Distinct(SubSeq(seq, 1, Len(seq) - 1))
             last == seq[Len(seq)]
         IN  IF last \in Range(before) THEN before ELSE Append(before, last)

\* The civil date [year, month (0..11), date] of a day: the day of the
\* 400-year era, the year of the era, the day of the year counted from
\* March 1st, and the month counted from March.
CivilOfMonth(y, doy, mp) ==
    [ year |-> y + (IF mp >= 10 THEN 1 ELSE 0),
      month |-> (IF mp < 10 THEN mp + 3 ELSE mp - 9) - 1,
      date |-> doy - (153 * mp + 2) \div 5 + 1 ]

CivilOfDayOfYear(y, doy) == CivilOfMonth(y, doy, (5 * doy + 2) \div 153)

CivilOfYearOfEra(era, doe, yoe) ==
    CivilOfDayOfYear(yoe + era * 400, doe - (365 * yoe + yoe \div 4 - yoe \div 100))

CivilOfDayOfEra(era, doe) ==
    CivilOfYearOfEra(era, doe,
                     (doe - doe \div 1460 + doe \div 36524 - doe \div 146096) \div 365)

CivilFromDays(z) ==
    CivilOfDayOfEra((z + 719468) \div 146097, (z + 719468) % 146097)

GetFullYear(date) == CivilFromDays(date).year
GetMonth(date) == CivilFromDays(date).month
GetDate(date) == CivilFromDays(date).date

\* Date.toLocaleDateString(): month/day/year.
ToLocaleDateString(date) == << GetMonth(date) + 1, GetDate(date), GetFullYear(date) >>

\* isSameDay compares the toDateString() of two Dates.
IsSameDay(d1, d2) == CivilFromDays(d1) = CivilFromDays(d2)

\* getWeekNumber: the ISO week of the Thursday of the date's week.
GetWeekNumber(d) ==
    LET dow == IF GetDay(d) = 0 THEN 7 ELSE GetDay(d)
        thursday == d + 4 - dow
        yearStart == NewDate(GetFullYear(thursday), 0, 1)
    IN  ((thursday - yearStart) + 1 + 6) \div 7

\* Math.ceil((end - start) / ms per day) + 1 for two midnights.
LeaveDays(leave) == (leave.endDate - leave.startDate) + 1

\* The days from startDate to endDate, in order (the while loops over current).
DateRange(startDate, endDate) ==
    [ k \in 1 .. Max(0, endDate - startDate + 1) |-> startDate + k - 1 ]

\* A quotient a / b of two integers as JavaScript computes it: b = 0 gives
\* Infinity, -Infinity or NaN by the sign of a.
Quotient(a, b) == [ num |-> a, den |-> b ]

\* q >= n / d and the other comparisons, for d > 0 and q.den >= 0.
QuotientAtLeast(q, n, d) ==
    IF q.den = 0 THEN q.num > 0 ELSE q.num * d >= n * q.den
QuotientBelow(q, n, d) ==
    IF q.den = 0 THEN q.num < 0 ELSE q.num * d < n * q.den
QuotientAbove(q, n, d) ==
    IF q.den = 0 THEN q.num > 0 ELSE q.num * d > n * q.den
QuotientGreater(q1, q2) ==
    IF q1.den = 0 /\ q2.den = 0 THEN q1.num > 0 /\ q2.num < 0
    ELSE IF q1.den = 0 THEN q1.num > 0
    ELSE IF q2.den = 0 THEN q2.num < 0
    ELSE q1.num * q2.den > q2.num * q1.den

\* new Date() with setMonth(getMonth() - 6).
SixMonthsAgo(today) ==
    NewDate(GetFullYear(today), GetMonth(today) - 6, GetDate(today))

\* { id: doc.id, ...doc.data() }
WithId(id, data) ==
    [ f \in {"id"} \cup DOMAIN data |-> IF f = "id" THEN id ELSE data[f] ]

\* getHistoricalLeave: the ids of the resident's requests that start after
\* the instant six months before now.
GetHistoricalLeave(d, today, residentId) ==
    { id \in DOMAIN d.leaveRequests :
        /\ d.leaveRequests[id].residentId = residentId
        /\ d.leaveRequests[id].startDate > SixMonthsAgo(today) }

\* The ids of the monthly and the weekly schedule documents.
MonthId(date) == << GetFullYear(date), GetMonth(date) + 1 >>
WeekId(date) == << GetFullYear(date), GetWeekNumber(date) >>

\* checkScheduleConflicts: the calls of the stored monthly schedules, then the
\* OR and clinic assignments of the stored weekly schedules, that fall on a
\* day of the request and belong to the requesting resident.
CheckScheduleConflicts(d, request) ==
    LET dates == DateRange(request.startDate, request.endDate)
        onADate(date) == { k \in DOMAIN dates : IsSameDay(date, dates[k]) } # {}
        monthIds == Distinct([ k \in DOMAIN dates |-> MonthId(dates[k]) ])
        weekIds == Distinct([ k \in DOMAIN dates |-> WeekId(dates[k]) ])
        mine(a) == a.residentId = request.residentId
        callsOf(monthId) ==
            IF monthId \in DOMAIN d.monthlySchedules
            THEN LET residentCalls ==
                         SelectSeq(d.monthlySchedules[monthId].assignments,
                                   LAMBDA a : mine(a) /\ onADate(a.date))
                 IN  [ k \in DOMAIN residentCalls |->
                         [ type |-> "Call", date |-> residentCalls[k].date,
                           description |-> residentCalls[k].type,
                           severity |-> "High" ] ]
            ELSE << >>
        ofDay(day) ==
            IF onADate(day.date)
            THEN LET orAssignments == SelectSeq(day.assignments.or, mine)
                     clinicAssignments == SelectSeq(day.assignments.clinic, mine)
                 IN  [ k \in DOMAIN orAssignments |->
                         [ type |-> "OR", date |-> day.date,
                           description |-> IF orAssignments[k].caseType = ""
                                           THEN "OR Assignment"
                                           ELSE orAssignments[k].caseType,
                           severity |-> "High" ] ]
                     \o
                     [ k \in DOMAIN clinicAssignments |->
                         [ type |-> "Clinic", date |-> day.date,
                           description |-> IF clinicAssignments[k].clinicType = ""
                                           THEN "Clinic"
                                           ELSE clinicAssignments[k].clinicType,
                           severity |-> "Medium" ] ]
            ELSE << >>
        daysOf(weekId) ==
            IF weekId \in DOMAIN d.weeklySchedules
            THEN LET days == d.weeklySchedules[weekId].days
                 IN  FlattenSeq([ k \in DOMAIN days |-> ofDay(days[k]) ])
            ELSE << >>
    IN  FlattenSeq([ k \in DOMAIN monthIds |-> callsOf(monthIds[k]) ])
        \o FlattenSeq([ k \in DOMAIN weekIds |-> daysOf(weekIds[k]) ])

\* analyzeCoverageImpact for a request of residentId from startDate to endDate.
AnalyzeCoverageImpact(d, residentId, startDate, endDate) ==
    LET totalResidents ==
            Cardinality({ r \in d.residents :
                            r.onService /\ r.specialty = "Neurosurgery" })
        overlappingLeave ==
            { id \in DOMAIN d.leaveRequests :
                /\ d.leaveRequests[id].status = "Approved"
                /\ d.leaveRequests[id].endDate >= startDate
                /\ d.leaveRequests[id].startDate <= endDate
                /\ d.leaveRequests[id].residentId # residentId }
        overlappingCount == Cardinality(overlappingLeave)
        availableResidents == totalResidents - overlappingCount - 1
        coverageRatio == Quotient(availableResidents, totalResidents)
        criticalDates ==
            SelectSeq(DateRange(startDate, endDate),
                      LAMBDA date : GetDay(date) = 0 \/ GetDay(date) = 6)
        byRatio == IF QuotientAtLeast(coverageRatio, 8, 10) THEN "Low"
                   ELSE IF QuotientAtLeast(coverageRatio, 6, 10) THEN "Medium"
                   ELSE "High"
        riskLevel == IF Len(criticalDates) > 2 /\ byRatio = "Low" THEN "Medium"
                     ELSE IF Len(criticalDates) > 4 THEN "High"
                     ELSE byRatio
    IN  [ riskLevel |-> riskLevel,
          availableResidents |-> availableResidents,
          totalResidents |-> totalResidents,
          overlappingLeaveCount |-> overlappingCount,
          coverageRatio |-> coverageRatio,
          criticalDates |-> criticalDates ]

\* A template literal: its fixed text and the values interpolated into it.
Message(text, values) == [ text |-> text, values |-> values ]

\* getResident: the documents of the residents collection with the id; the
\* read throws when there is none.
ResidentExists(d, residentId) == { r \in d.residents : r.id = residentId } # {}
GetResident(d, residentId) == CHOOSE r \in d.residents : r.id = residentId

\* getPeerComparisonData: the approved leave of the residents of the same
\* PGY level and specialty that starts after six months before now.
GetPeerComparisonData(d, today, request) ==
    LET resident == GetResident(d, request.residentId)
        peerIds == { r.id : r \in { p \in d.residents :
                                      /\ p.pgyLevel = resident.pgyLevel
                                      /\ p.specialty = resident.specialty } }
        peerLeave == { id \in DOMAIN d.leaveRequests :
                         /\ d.leaveRequests[id].residentId \in peerIds
                         /\ d.leaveRequests[id].status = "Approved"
                         /\ d.leaveRequests[id].startDate > SixMonthsAgo(today) }
        totalDays == SumOver(peerLeave, LAMBDA id : LeaveDays(d.leaveRequests[id]))
    IN  [ peerCount |-> Cardinality(peerIds),
          averageDaysOff |-> IF Cardinality(peerIds) > 0
                             THEN Quotient(totalDays, Cardinality(peerIds))
                             ELSE Quotient(10, 1) ]

\* calculateFairness; historicalLeave is the set of the documents read, each
\* with its id.
CalculateFairness(request, historicalLeave, resident, peerData) ==
    LET approved == { l \in historicalLeave : l.status = "Approved" }
        recentDaysOff == SumOver(approved, LeaveDays)
        samePeriodRequests ==
            { l \in historicalLeave :
                GetMonth(l.startDate) = GetMonth(request.startDate) }
        approvedCount ==
            Cardinality({ l \in samePeriodRequests : l.status = "Approved" })
        historicalRate == IF Cardinality(samePeriodRequests) > 0
                          THEN Quotient(approvedCount, Cardinality(samePeriodRequests))
                          ELSE Quotient(1, 2)
        peerAverage == IF peerData.averageDaysOff.num = 0 THEN Quotient(10, 1)
                       ELSE peerData.averageDaysOff
        peerComparison == IF QuotientAbove(peerAverage, 0, 1)
                          THEN Quotient(recentDaysOff * peerAverage.den, peerAverage.num)
                          ELSE Quotient(1, 1)
        afterLeave == IF recentDaysOff > 15 THEN 100 - 30
                      ELSE IF recentDaysOff > 10 THEN 100 - 20
                      ELSE IF recentDaysOff > 5 THEN 100 - 10
                      ELSE 100
        afterPeers == IF QuotientAbove(peerComparison, 15, 10) THEN afterLeave - 20
                      ELSE IF QuotientAbove(peerComparison, 12, 10) THEN afterLeave - 10
                      ELSE IF QuotientBelow(peerComparison, 5, 10) THEN afterLeave + 10
                      ELSE afterLeave
        score == Max(0, Min(100, afterPeers + resident.pgyLevel * 2))
    IN  [ score |-> score,
          historicalRate |-> historicalRate,
          recentDaysOff |-> recentDaysOff,
          peerComparison |-> peerComparison,
          recommendations |->
              (IF QuotientBelow(peerAverage, recentDaysOff, 1)
               THEN << Message("Consider deferring to allow peers equal opportunity",
                               << >>) >>
               ELSE << >>)
              \o
              (IF QuotientBelow(historicalRate, 3, 10)
               THEN << Message("This period historically has low approval rates",
                               << >>) >>
               ELSE << >>) ]

\* getConfiguration: the configuration document, or the default leave policy
\* when there is none.  A field that a stored document lacks is 0 here: every
\* reader of the leave policy uses it through || with a default.
GetConfiguration(d) ==
    IF d.configuration = << >>
    THEN [ leavePolicy |-> [ minNoticeDays |-> 30, maxConsecutiveDays |-> 14,
                             annualLimit |-> 21 ] ]
    ELSE d.configuration[1]

\* value || fallback for a number.
OrElse(value, fallback) == IF value = 0 THEN fallback ELSE value

\* checkPolicyCompliance; Math.ceil of the time from now to the midnight of
\* startDate is the difference of the days.
CheckPolicyCompliance(request, historicalLeave, configuration, today) ==
    LET daysNotice == request.startDate - today
        minNotice == OrElse(configuration.leavePolicy.minNoticeDays, 30)
        requestDays == LeaveDays(request)
        maxConsecutive == OrElse(configuration.leavePolicy.maxConsecutiveDays, 14)
        yearStart == NewDate(GetFullYear(today), 0, 1)
        yearLeave == { l \in historicalLeave :
                         l.status = "Approved" /\ l.startDate >= yearStart }
        yearDaysUsed == SumOver(yearLeave, LeaveDays)
        annualLimit == OrElse(configuration.leavePolicy.annualLimit, 21)
        violations ==
            (IF daysNotice < minNotice /\ request.type # "Compassionate"
             THEN << Message("Less than {} days notice provided", << minNotice >>) >>
             ELSE << >>)
            \o
            (IF requestDays > maxConsecutive
             THEN << Message("Exceeds maximum {} consecutive days",
                             << maxConsecutive >>) >>
             ELSE << >>)
            \o
            (IF yearDaysUsed + requestDays > annualLimit
             THEN << Message("Would exceed annual limit of {} days",
                             << annualLimit >>) >>
             ELSE << >>)
    IN  [ isCompliant |-> Len(violations) = 0, violations |-> violations ]

\* The reason of a recommendation: the template, the numbers, the assignment
\* type and the formatted date interpolated into it, and the joined list.
Reason(text, values, named, date, list) ==
    [ text |-> text, values |-> values, named |-> named, date |-> date,
      list |-> list ]

\* reason?: undefined
NoReason == Reason("undefined", << >>, "", << >>, << >>)

\* generateRecommendation approving a request with a single concern.
ApproveSingleConcern(fairness, coverage, conflicts, policyCompliance) ==
    LET concerns ==
            Cardinality({ c \in { "coverage" } : coverage.riskLevel = "Medium" })
            + Cardinality({ c \in { "fairness" } : fairness.score < 40 })
            + Cardinality({ c \in { "conflicts" } : Len(conflicts) > 0 })
            + Cardinality({ c \in { "policy" } : ~policyCompliance.isCompliant })
        denied ==
            \/ \E k \in DOMAIN conflicts : conflicts[k].severity = "High"
            \/ ~policyCompliance.isCompliant /\ Len(policyCompliance.violations) > 1
            \/ coverage.riskLevel = "High" /\ QuotientBelow(coverage.coverageRatio, 5, 10)
    IN  [ decision |-> IF denied THEN "Deny"
                       ELSE IF concerns >= 2 THEN "Flagged for Review"
                       ELSE "Approve",
          reason |-> NoReason,
          notes |-> << >> ]

\* generateRecommendation
GenerateRecommendation(fairness, coverage, conflicts, policyCompliance) ==
    LET criticalConflicts == SelectSeq(conflicts, LAMBDA c : c.severity = "High")
        concerns ==
            (IF coverage.riskLevel = "Medium"
             THEN << Message("medium coverage risk", << >>) >> ELSE << >>)
            \o (IF fairness.score < 40
                THEN << Message("low fairness score", << >>) >> ELSE << >>)
            \o (IF Len(conflicts) > 0
                THEN << Message("minor conflicts", << >>) >> ELSE << >>)
            \o (IF ~policyCompliance.isCompliant
                THEN << Message("policy concerns", << >>) >> ELSE << >>)
        reviewNotes == fairness.recommendations \o policyCompliance.violations
    IN  IF Len(criticalConflicts) > 0
        THEN [ decision |-> "Deny",
               reason |-> Reason("Conflicts with {} critical assignments including {} on {}",
                                 << Len(criticalConflicts) >>,
                                 criticalConflicts[1].type,
                                 ToLocaleDateString(criticalConflicts[1].date),
                                 << >>),
               notes |-> << Message("Found {} total scheduling conflicts",
                                    << Len(conflicts) >>) >> ]
        ELSE IF ~policyCompliance.isCompliant /\ Len(policyCompliance.violations) > 1
        THEN [ decision |-> "Deny",
               reason |-> Reason("Policy violations: {}", << >>, "", << >>,
                                 policyCompliance.violations),
               notes |-> policyCompliance.violations ]
        ELSE IF coverage.riskLevel = "High" /\ QuotientBelow(coverage.coverageRatio, 5, 10)
        THEN [ decision |-> "Deny",
               reason |-> Reason("Would result in critical understaffing with less than 50% coverage",
                                 << >>, "", << >>, << >>),
               notes |-> << Message("Only {} of {} residents would be available",
                                    << coverage.availableResidents,
                                       coverage.totalResidents >>) >> ]
        ELSE IF Len(concerns) >= 2
        THEN [ decision |-> "Flagged for Review",
               reason |-> Reason("Multiple concerns: {}", << >>, "", << >>, concerns),
               notes |-> reviewNotes ]
        ELSE IF Len(concerns) = 1
        THEN [ decision |-> "Flagged for Review",
               reason |-> Reason("Requires review due to {}", << >>, "", << >>,
                                 << concerns[1] >>),
               notes |-> reviewNotes ]
        ELSE [ decision |-> "Approve",
               reason |-> NoReason,
               notes |-> << Message("Fairness score: {}/100", << fairness.score >>),
                            Message(CASE coverage.riskLevel = "Low" ->
                                             "Coverage impact: Low"
                                      [] coverage.riskLevel = "Medium" ->
                                             "Coverage impact: Medium"
                                      [] OTHER -> "Coverage impact: High",
                                    << >>) >> ]

\* findAlternativeDates without the limit of three alternatives.
FindEveryAlternativeDate(d, request, currentCoverage) ==
    LET duration == LeaveDays(request)
        Better(testStart) ==
            LET testCoverage == AnalyzeCoverageImpact(d, request.residentId, testStart,
                                                      testStart + duration - 1)
            IN  /\ ~(testStart <= request.endDate
                       /\ testStart + duration - 1 >= request.startDate)
                /\ testCoverage.riskLevel = "Low"
                /\ QuotientGreater(testCoverage.coverageRatio,
                                   currentCoverage.coverageRatio)
    IN  SelectSeq([ i \in 1..28 |-> request.startDate - 14 + i - 1 ], Better)

\* findAlternativeDates: the first three start dates within two weeks of the
\* request whose period does not overlap it and has Low risk at a better ratio.
FindAlternativeDates(d, request, currentCoverage) ==
    LET duration == LeaveDays(request)
        searchStart == request.startDate - 14
        RECURSIVE from(_, _)
        from(i, alternatives) ==
            IF i >= 28 THEN alternatives
            ELSE LET testStart == searchStart + i
                     testEnd == testStart + duration - 1
                     testCoverage == AnalyzeCoverageImpact(d, request.residentId,
                                                           testStart, testEnd)
                     found == IF /\ testCoverage.riskLevel = "Low"
                                 /\ QuotientGreater(testCoverage.coverageRatio,
                                                    currentCoverage.coverageRatio)
                              THEN Append(alternatives, testStart)
                              ELSE alternatives
                 IN  IF testStart <= request.endDate /\ testEnd >= request.startDate
                     THEN from(i + 1, alternatives)
                     ELSE IF Len(found) >= 3 THEN found
                     ELSE from(i + 1, found)
    IN  from(0, << >>)

\* The result performComprehensiveAnalysis returns for a recommendation: the
\* alternative dates are searched unless the decision is Approve.
AnalysisResult(d, request, recommendation, coverageAnalysis, fairnessAnalysis, scheduleConflicts) ==
    [ threw |-> FALSE,
      recommendation |-> recommendation.decision,
      denialReason |-> recommendation.reason,
      coverage |-> coverageAnalysis,
      fairness |-> fairnessAnalysis,
      conflicts |-> scheduleConflicts,
      alternativeDates |->
          IF recommendation.decision # "Approve"
          THEN FindAlternativeDates(d, request, coverageAnalysis)
          ELSE << >>,
      notes |-> recommendation.notes ]

\* The second half of performComprehensiveAnalysis: the fairness, the policy
\* check and the recommendation from what the six reads returned.
AnalyseFetched(d, today, request, resident, historicalLeave, scheduleConflicts, coverageAnalysis, configuration, peerData) ==
    AnalysisResult(d, request,
                   GenerateRecommendation(
                       CalculateFairness(request, historicalLeave, resident, peerData),
                       coverageAnalysis, scheduleConflicts,
                       CheckPolicyCompliance(request, historicalLeave, configuration,
                                             today)),
                   coverageAnalysis,
                   CalculateFairness(request, historicalLeave, resident, peerData),
                   scheduleConflicts)

\* performComprehensiveAnalysis on the database d at the day today: the six
\* reads, then the fairness, the policy check and the recommendation.  It
\* throws when the resident's document does not exist.
PerformComprehensiveAnalysis(d, today, request) ==
    IF ~ResidentExists(d, request.residentId)
    THEN [ threw |-> TRUE,
           error |-> Message("Resident {} not found", << request.residentId >>) ]
    ELSE AnalyseFetched(d, today, request,
                        GetResident(d, request.residentId),
                        { WithId(id, d.leaveRequests[id]) :
                            id \in GetHistoricalLeave(d, today, request.residentId) },
                        CheckScheduleConflicts(d, request),
                        AnalyzeCoverageImpact(d, request.residentId,
                                              request.startDate, request.endDate),
                        GetConfiguration(d),
                        GetPeerComparisonData(d, today, request))

\* ---------------------------------------------------------------------------
\* analyzeLeaveRequest: the onCreate trigger of leaveRequests/{requestId}.
\* The creation event of the request is delivered to one invocation or, as a
\* duplicate, to more; every invocation receives the snapshot of the document
\* as it was created.  An invocation moves from one await to the next, and
\* any awaited read or write may reject.
\* ---------------------------------------------------------------------------

MaxInvocations == 2

\* The id of the leave request under analysis.
RequestId == 1

NoReportId == 0
NoError == Message("none", << >>)
NoAnalysis == [ threw |-> FALSE, recommendation |-> "none" ]

\* A leaveRequests document.
LeaveRequest(residentId, type, status, startDate, endDate) ==
    [ residentId |-> residentId, type |-> type, status |-> status,
      startDate |-> startDate, endDate |-> endDate,
      analysisReportId |-> NoReportId, denialJustification |-> NoReason,
      error |-> NoError ]

\* The report built from the analysis result, with the id of its new document.
Report(reportId, leaveRequest, analysisResult) ==
    [ id |-> reportId,
      requestId |-> leaveRequest.id,
      residentId |-> leaveRequest.residentId,
      overallRecommendation |-> analysisResult.recommendation,
      denialReason |-> analysisResult.denialReason,
      estimatedCoverageImpact |->
          [ projectedCoverageRisk |-> analysisResult.coverage.riskLevel,
            availableResidents |-> analysisResult.coverage.availableResidents,
            coverageRatio |-> analysisResult.coverage.coverageRatio,
            criticalDates |-> analysisResult.coverage.criticalDates ],
      fairnessScore |->
          [ score |-> analysisResult.fairness.score,
            historicalSuccessRateForPeriod |-> analysisResult.fairness.historicalRate,
            recentDaysOff |-> analysisResult.fairness.recentDaysOff,
            peerComparison |-> analysisResult.fairness.peerComparison ],
      scheduleConflicts |-> analysisResult.conflicts,
      alternativeDates |-> analysisResult.alternativeDates,
      notes |-> analysisResult.notes ]

\* The status the transaction gives the request.
StatusFor(recommendation) ==
    IF recommendation = "Deny" THEN "Denied" ELSE "Pending Approval"

\* A transaction that stores the report and leaves the request as it is.
SetReportOnly(d, report, requestId, analysisResult) ==
    [ d EXCEPT !.leaveAnalysisReports = (report.id :> report) @@ @ ]

\* The committed transaction: transaction.set of the report and
\* transaction.update of the request.
CommitTransaction(d, report, requestId, analysisResult) ==
    [ d EXCEPT
        !.leaveAnalysisReports = (report.id :> report) @@ @,
        !.leaveRequests[requestId] =
            [ @ EXCEPT !.status = StatusFor(analysisResult.recommendation),
                       !.analysisReportId = report.id,
                       !.denialJustification = analysisResult.denialReason ] ]

\* The notification createNotification stores.
Notification(notificationId, request, recommendation) ==
    [ id |-> notificationId,
      recipientId |-> request.residentId,
      title |-> CASE recommendation = "Approve" -> "Leave Request Analysis Complete"
                  [] recommendation = "Flagged for Review" -> "Leave Request Under Review"
                  [] recommendation = "Deny" -> "Leave Request Denied"
                  [] OTHER -> "",
      type |-> "LeaveRequest",
      linkTo |-> request.id,
      isRead |-> FALSE ]

\* --- The databases and requests the analyzer is run on ---

Today == NewDate(2025, 5, 2)

RequestedPeriods ==
    { << NewDate(2025, 7, 4), NewDate(2025, 7, 6) >>,      \* Monday to Wednesday
      << NewDate(2025, 8, 19), NewDate(2025, 8, 21) >>,    \* Friday to Sunday
      << NewDate(2025, 5, 16), NewDate(2025, 5, 18) >>,    \* two weeks ahead
      << NewDate(2025, 7, 2), NewDate(2025, 7, 17) >> }    \* sixteen days

ResidentDoc(id, pgyLevel, specialty, onService) ==
    [ id |-> id, pgyLevel |-> pgyLevel, specialty |-> specialty,
      onService |-> onService ]

Colleagues ==
    { ResidentDoc(2, 1, "Neurosurgery", TRUE), ResidentDoc(3, 3, "Neurosurgery", TRUE),
      ResidentDoc(4, 4, "Neurosurgery", TRUE), ResidentDoc(5, 5, "Neurosurgery", TRUE) }

ResidentCollections ==
    { Colleagues \cup { ResidentDoc(1, 3, "Neurosurgery", TRUE) },
      { r \in Colleagues : r.id <= 3 } \cup { ResidentDoc(1, 3, "Neurosurgery", TRUE) },
      { ResidentDoc(1, 3, "Neurosurgery", TRUE), ResidentDoc(2, 1, "Neurosurgery", TRUE),
        ResidentDoc(3, 3, "Plastics", TRUE), ResidentDoc(4, 4, "Neurosurgery", FALSE) },
      { r \in Colleagues : r.id <= 3 } }

\* The leave requests stored besides the one under analysis.
OtherLeaveChoices ==
    { << >>,
      << LeaveRequest(2, "Personal", "Approved", NewDate(2025, 7, 1), NewDate(2025, 7, 10)),
         LeaveRequest(3, "Personal", "Approved", NewDate(2025, 8, 15), NewDate(2025, 8, 25)) >>,
      << LeaveRequest(1, "Personal", "Approved", NewDate(2025, 2, 3), NewDate(2025, 2, 14)),
         LeaveRequest(1, "Personal", "Denied", NewDate(2025, 7, 11), NewDate(2025, 7, 12)) >> }

CallAssignment(residentId, date, type) ==
    [ residentId |-> residentId, date |-> date, type |-> type ]

WeekDay(date, or, clinic) ==
    [ date |-> date, assignments |-> [ or |-> or, clinic |-> clinic ] ]

\* The stored monthly and weekly schedules: none, a month with a Weekend call
\* of the resident, a week with an OR case, a week with a clinic.
ScheduleChoices ==
    { [ monthly |-> << >>, weekly |-> << >> ],
      [ monthly |-> MonthId(NewDate(2025, 8, 20)) :>
                      [ assignments |->
                          << CallAssignment(2, NewDate(2025, 8, 19), "Night"),
                             CallAssignment(1, NewDate(2025, 8, 20), "Weekend"),
                             CallAssignment(1, NewDate(2025, 8, 27), "Weekend") >> ],
        weekly |-> << >> ],
      [ monthly |-> << >>,
        weekly |-> WeekId(NewDate(2025, 7, 5)) :>
                     [ days |->
                         << WeekDay(NewDate(2025, 7, 4), << >>, << >>),
                            WeekDay(NewDate(2025, 7, 5),
                                    << [ residentId |-> 1, caseType |-> "" ],
                                       [ residentId |-> 2, caseType |-> "Craniotomy" ] >>,
                                    << >>) >> ] ],
      [ monthly |-> << >>,
        weekly |-> WeekId(NewDate(2025, 7, 5)) :>
                     [ days |->
                         << WeekDay(NewDate(2025, 7, 5), << >>,
                                    << [ residentId |-> 1, clinicType |-> "Spine" ] >>) >> ] ] }

\* The type of the request and the configuration document.
PolicyChoices ==
    { [ type |-> "Personal", configuration |-> << >> ],
      [ type |-> "Compassionate", configuration |-> << >> ],
      [ type |-> "Personal",
        configuration |-> << [ leavePolicy |-> [ minNoticeDays |-> 7,
                                                 maxConsecutiveDays |-> 0,
                                                 annualLimit |-> 30 ] ] >> ] }

Database(period, residentDocs, otherLeave, schedules, policy, status) ==
    [ residents |-> residentDocs,
      leaveRequests |->
          << LeaveRequest(1, policy.type, status, period[1], period[2]) >>
              \o otherLeave,
      leaveAnalysisReports |-> << >>,
      notifications |-> {},
      monthlySchedules |-> schedules.monthly,
      weeklySchedules |-> schedules.weekly,
      configuration |-> policy.configuration ]

NoSchedules == [ monthly |-> << >>, weekly |-> << >> ]
NoOtherLeave == << >>
FullService == Colleagues \cup { ResidentDoc(1, 3, "Neurosurgery", TRUE) }
DefaultPolicy == [ type |-> "Personal", configuration |-> << >> ]

\* Every period with: every stored schedule and every other leave on the full
\* service; every residents collection without and with the leave of
\* colleagues; every policy; and a request that is created already Approved.
Databases ==
    { Database(period, FullService, otherLeave, schedules, DefaultPolicy,
               "Pending Analysis") :
        period \in RequestedPeriods, otherLeave \in OtherLeaveChoices,
        schedules \in ScheduleChoices }
    \cup
    { Database(period, residentDocs, otherLeave, NoSchedules, DefaultPolicy,
               "Pending Analysis") :
        period \in RequestedPeriods, residentDocs \in ResidentCollections,
        otherLeave \in { l \in OtherLeaveChoices :
                           \A k \in DOMAIN l : l[k].residentId # 1 } }
    \cup
    { Database(period, FullService, NoOtherLeave, NoSchedules, policy,
               "Pending Analysis") :
        period \in RequestedPeriods, policy \in PolicyChoices }
    \cup
    { Database(period, FullService, NoOtherLeave, NoSchedules, DefaultPolicy,
               "Approved") :
        period \in RequestedPeriods }

\* An invocation that has received the snapshot of the created document.
Invoked(snap) ==
    [ pc |-> "start", leaveRequest |-> WithId(RequestId, snap),
      analysisResult |-> NoAnalysis, reportId |-> NoReportId, error |-> NoError ]

AnalyzerInit ==
    /\ IdleMonthly
    /\ IdleMaxCalls
    /\ IdleYearly
    /\ IdleRpc
    /\ IdleCalls
    /\ db \in Databases
    /\ now = Today
    /\ \E deliveries \in 1 .. MaxInvocations :
           invocations = [ i \in 1 .. deliveries |-> Invoked(db.leaveRequests[RequestId]) ]
    /\ statusWrites = << >>

Invocation(i) == invocations[i]

\* The invocation goes on to the next await with some of its locals set.
Goto(i, label, changes) ==
    invocations' = [ invocations EXCEPT ![i] = [ f \in DOMAIN @ |->
                        IF f = "pc" THEN label
                        ELSE IF f \in DOMAIN changes THEN changes[f] ELSE @[f] ] ]

\* The invocation returns null: the snapshot is not Pending Analysis.
SkipAnalysis(i) ==
    /\ Invocation(i).pc = "start"
    /\ Invocation(i).leaveRequest.status # "Pending Analysis"
    /\ Goto(i, "skipped", << >>)
    /\ UNCHANGED << db, now, statusWrites, notAnalyzer >>

\* The invocation after the analysis threw or returned its result; the id of
\* the new report document is unique to the invocation.
Analysed(i, analysisResult) ==
    IF analysisResult.threw
    THEN Goto(i, "caught", [ error |-> analysisResult.error ])
    ELSE Goto(i, "analysed", [ analysisResult |-> analysisResult, reportId |-> i ])

\* await performComprehensiveAnalysis: the reads of the database and the
\* analysis.
AwaitPerformComprehensiveAnalysis(i) ==
    /\ Invocation(i).pc = "start"
    /\ Invocation(i).leaveRequest.status = "Pending Analysis"
    /\ Analysed(i, PerformComprehensiveAnalysis(db, now, Invocation(i).leaveRequest))
    /\ UNCHANGED << db, now, statusWrites, notAnalyzer >>

\* await db.runTransaction: the report is stored and the request updated.
AwaitRunTransaction(i) ==
    /\ Invocation(i).pc = "analysed"
    /\ LET report == Report(Invocation(i).reportId, Invocation(i).leaveRequest,
                            Invocation(i).analysisResult)
       IN  /\ db' = CommitTransaction(db, report, RequestId,
                                      Invocation(i).analysisResult)
           /\ statusWrites' =
                  Append(statusWrites,
                         [ by |-> i,
                           status |-> StatusFor(Invocation(i).analysisResult.recommendation) ])
    /\ Goto(i, "committed", << >>)
    /\ UNCHANGED << now, notAnalyzer >>

\* await createNotification, and the invocation returns its result.
AwaitCreateNotification(i) ==
    /\ Invocation(i).pc = "committed"
    /\ db' = [ db EXCEPT !.notifications =
                 @ \cup { Notification(i, Invocation(i).leaveRequest,
                                       Invocation(i).analysisResult.recommendation) } ]
    /\ Goto(i, "returned", << >>)
    /\ UNCHANGED << now, statusWrites, notAnalyzer >>

\* An awaited promise of the try block rejects: a read of the analysis, the
\* transaction (nothing of it is stored) or the write of the notification.
AwaitRejects(i) ==
    /\ \/ /\ Invocation(i).pc = "start"
          /\ Invocation(i).leaveRequest.status = "Pending Analysis"
       \/ Invocation(i).pc \in { "analysed", "committed" }
    /\ Goto(i, "caught", [ error |-> Message("rejected", << >>) ])
    /\ UNCHANGED << db, now, statusWrites, notAnalyzer >>

\* The catch block: the request is updated to Analysis Failed with the
\* message of the error, and the invocation throws.
UpdateAnalysisFailed(i) ==
    /\ Invocation(i).pc = "caught"
    /\ db' = [ db EXCEPT !.leaveRequests[RequestId] =
                 [ @ EXCEPT !.status = "Analysis Failed",
                            !.error = Invocation(i).error ] ]
    /\ statusWrites' = Append(statusWrites, [ by |-> i, status |-> "Analysis Failed" ])
    /\ Goto(i, "failed", << >>)
    /\ UNCHANGED << now, notAnalyzer >>

\* The update of the catch block rejects: the invocation throws that error.
UpdateRejects(i) ==
    /\ Invocation(i).pc = "caught"
    /\ Goto(i, "updateRejected", << >>)
    /\ UNCHANGED << db, now, statusWrites, notAnalyzer >>

AnalyzerNext ==
    \/ \E i \in DOMAIN invocations : SkipAnalysis(i)
    \/ \E i \in DOMAIN invocations : AwaitPerformComprehensiveAnalysis(i)
    \/ \E i \in DOMAIN invocations : AwaitRunTransaction(i)
    \/ \E i \in DOMAIN invocations : AwaitCreateNotification(i)
    \/ \E i \in DOMAIN invocations : AwaitRejects(i)
    \/ \E i \in DOMAIN invocations : UpdateAnalysisFailed(i)
    \/ \E i \in DOMAIN invocations : UpdateRejects(i)

AnalyzerSpec == AnalyzerInit /\ [][AnalyzerNext]_vars

\* --- Vocabulary of the properties of the analyzer ---

\* The leave request under analysis as the database holds it.
Request == db.leaveRequests[RequestId]

\* The invocation has returned or thrown.
Finished(i) == Invocation(i).pc \in { "skipped", "returned", "failed", "updateRejected" }

\* The creation event was delivered once and the request was created with
\* status Pending Analysis.
OneInvocationOfPending ==
    /\ DOMAIN invocations = { 1 }
    /\ Invocation(1).leaveRequest.status = "Pending Analysis"

\* The ids of the stored reports of the request.
ReportsOfRequest ==
    { id \in DOMAIN db.leaveAnalysisReports :
        db.leaveAnalysisReports[id].requestId = RequestId }

\* C15: over one whole execution of analyzeLeaveRequest for a request created
\* with status Pending Analysis, the analyzer writes the status of the request
\* once and never again: at no point of the execution has it written the
\* status twice.
C15_StatusWrittenAtMostOnce ==
    OneInvocationOfPending => Len(statusWrites) <= 1

\* C16: when an execution of analyzeLeaveRequest fails at any step and its
\* catch block has updated the request, the request has status Analysis Failed
\* with the message of the error, no report of the request is stored and the
\* request carries no analysisReportId.
C16_FailureLeavesNoPartialState ==
    (OneInvocationOfPending /\ Invocation(1).pc = "failed")
        => /\ Request.status = "Analysis Failed"
           /\ Request.error = Invocation(1).error
           /\ ReportsOfRequest = {}
           /\ Request.analysisReportId = NoReportId

\* C17: however often the creation event of a request is delivered, at most
\* one report is ever written for the request.
C17_AtMostOneReport ==
    Cardinality(ReportsOfRequest) <= 1

\* C18: the report write and the request update are one atomic step: in every
\* state a report of the request is stored exactly when the request carries an
\* analysisReportId, the request then no longer has the status it was created
\* with, and its analysisReportId is the id of a stored report whose requestId
\* is the request.
C18_ReportAndRequestCommitTogether ==
    /\ (ReportsOfRequest # {}) <=> (Request.analysisReportId # NoReportId)
    /\ ReportsOfRequest # {} => Request.status # "Pending Analysis"
    /\ Request.analysisReportId # NoReportId
           => /\ Request.analysisReportId \in ReportsOfRequest
              /\ db.leaveAnalysisReports[Request.analysisReportId].id
                     = Request.analysisReportId

\* An invocation has just committed its transaction: its report is stored and
\* the request names it.
C18_Witness ==
    \E i \in DOMAIN invocations :
        /\ Invocation(i).pc = "committed"
        /\ Request.analysisReportId = Invocation(i).reportId
        /\ Invocation(i).reportId \in ReportsOfRequest

\* The status the specification gives a request for a recommendation.
StatedStatus(recommendation) ==
    CASE recommendation = "Approve" -> "Pending Approval"
      [] recommendation = "Deny" -> "Denied"
      [] recommendation = "Flagged for Review" -> "Flagged for Review"
      [] OTHER -> "none"

\* C19: right after the transaction of a successful analysis the status of
\* the request is the one stated for the recommendation (Approve: Pending
\* Approval, Deny: Denied, Flagged for Review: Flagged for Review) and the
\* stored report's overallRecommendation is that recommendation.
C19_StatusFollowsRecommendation ==
    (OneInvocationOfPending /\ Invocation(1).pc = "committed")
        => /\ Request.status = StatedStatus(Invocation(1).analysisResult.recommendation)
           /\ db.leaveAnalysisReports[Request.analysisReportId].overallRecommendation
                  = Invocation(1).analysisResult.recommendation

\* The calls of the requesting resident in the stored monthly schedules that
\* fall on a day of the request.
OverlappingCalls ==
    { a \in UNION { Range(db.monthlySchedules[id].assignments) :
                      id \in DOMAIN db.monthlySchedules } :
        /\ a.residentId = Request.residentId
        /\ Request.startDate <= a.date
        /\ a.date <= Request.endDate }

\* C20: when the request overlaps a call of the requesting resident in a
\* stored monthly schedule, the analysed request is Denied and its
\* denialJustification mentions the conflict and names an overlapping call by
\* its call type and its date.
C20_DenialNamesTheCall ==
    (OneInvocationOfPending /\ Invocation(1).pc = "committed" /\ OverlappingCalls # {})
        => /\ Request.status = "Denied"
           /\ Request.denialJustification.text
                  = "Conflicts with {} critical assignments including {} on {}"
           /\ { a \in OverlappingCalls :
                  /\ Request.denialJustification.named = a.type
                  /\ Request.denialJustification.date = ToLocaleDateString(a.date) } # {}

-----------------------------------------------------------------------------
(* The callable functions generateYearlySchedule, generateMonthlySchedule  *)
(* and generateWeeklySchedule, their store and their cache                 *)

\* Calls of the callable functions in one behaviour.
MaxRpcCalls == 2

\* The outcome of a function: the value it returned or the AppError it threw.
Returned(value) == [ returned |-> value ]

Threw(code) == [ threw |-> code ]

HasThrown(outcome) == "threw" \in DOMAIN outcome

\* context.auth?.token?.admin.
AlwaysAdmin(context) == TRUE

IsAdmin(context) == context.auth.token.admin

\* CacheService: get gives the value stored under the key, or nothing;
\* set stores the value under the key; invalidate drops the keys of a prefix.
NotCached == [ cached |-> FALSE ]

CacheGet(entries, key) ==
    IF key \in DOMAIN entries THEN entries[key] ELSE NotCached

IsCached(cached) == cached # NotCached

CacheSet(entries, key, value) ==
    [ k \in DOMAIN entries \cup { key } |-> IF k = key THEN value ELSE entries[k] ]

CacheInvalidate(entries, prefix) ==
    [ k \in { e \in DOMAIN entries : SubSeq(e, 1, Len(prefix)) # prefix } |-> entries[k] ]

\* `monthly:${year}-${month}:${staffingLevel}`, `yearly:${academicYearId}`.
MonthlyCacheKey(yr, mo, level) == << "monthly", yr, mo, level >>

YearlyCacheKey(academicYearId) == << "yearly", academicYearId >>

\* `${year}-${(month + 1).toString().padStart(2, '0')}`: the year's digits and
\* the two digits of the month counted from 1.
ScheduleId(yr, mo) == << yr, (mo + 1) \div 10, (mo + 1) % 10 >>

\* `${year}-${year + 1}`.
AcademicYearId(yr) == << yr, yr + 1 >>

\* `${assignment.residentId}_${year}-${month + 1}`.
StatsId(residentId, yr, mo) == << residentId, yr, mo + 1 >>

\* The document of a collection under an id, as a set of none or one.
DocsAt(collection, id) == { doc \in collection : doc.id = id }

\* doc(id).set(data): the document under the id is replaced.
SetDoc(collection, id, data) == (collection \ DocsAt(collection, id)) \cup { data }

\* getResidents: the residents on service; none found is thrown as not-found
\* inside the try, and the catch throws internal for whatever it caught.
GetResidents(fs) ==
    LET onService == { r \in fs.residents : r.onService }
    IN  IF onService = {} THEN Threw("internal") ELSE Returned(onService)

\* getConfiguration: configuration/main, with the same catch.
GetConfigurationMain(fs) ==
    IF fs.configuration = {} THEN Threw("internal")
    ELSE Returned(CHOOSE doc \in fs.configuration : TRUE)

\* getAcademicYear(yearId), with the same catch.
GetAcademicYear(fs, yearId) ==
    IF DocsAt(fs.academicYears, yearId) = {} THEN Threw("internal")
    ELSE Returned(CHOOSE doc \in DocsAt(fs.academicYears, yearId) : TRUE)

\* validateGeneratedSchedule: no resident of the roster has more than 8
\* assignments that are not post-call days.
ValidateGeneratedSchedule(generated, roster) ==
    \A r \in roster :
        Cardinality({ k \in DOMAIN generated :
                        /\ generated[k].residentId = r.id
                        /\ generated[k].type # "PostCall" }) <= 8

\* What scheduler.generateSchedule(staffingLevel) returns for the roster read.
\* The run itself is the specification Spec; the callable function only
\* stores, counts and returns the list, so the list is cut down here to the
\* first resident's night call and post-call day, twice in Shortage.
FirstResident(roster) == CHOOSE r \in roster : \A o \in roster : r.id <= o.id

RpcAssignment(residentId, date, type) ==
    [ residentId |-> residentId, date |-> date, type |-> type ]

GenerateScheduleOf(roster, yr, mo, level) ==
    LET first == FirstResident(roster).id
        once == << RpcAssignment(first, NewDate(yr, mo, 1), "Night"),
                   RpcAssignment(first, NewDate(yr, mo, 2), "PostCall") >>
    IN  IF level = "Shortage"
        THEN once \o << RpcAssignment(first, NewDate(yr, mo, 3), "Night"),
                        RpcAssignment(first, NewDate(yr, mo, 4), "PostCall") >>
        ELSE once

\* assignments.filter(a => a.type !== 'PostCall').length
TotalCallsOf(generated) ==
    Cardinality({ k \in DOMAIN generated : generated[k].type # "PostCall" })

\* new Set(assignments.map(a => a.residentId)).size
UniqueResidentsOf(generated) ==
    Cardinality({ generated[k].residentId : k \in DOMAIN generated })

\* The document transaction.set writes to monthlySchedules/{scheduleId}.
MonthlyScheduleDoc(call, generated) ==
    [ id |-> ScheduleId(call.data.year, call.data.month),
      month |-> call.data.month,
      year |-> call.data.year,
      assignments |-> generated,
      metadata |-> [ generatedBy |-> call.context.auth.uid,
                     staffingLevel |-> call.data.staffingLevel,
                     totalCalls |-> TotalCallsOf(generated),
                     uniqueResidents |-> UniqueResidentsOf(generated),
                     version |-> "4.0.0" ],
      published |-> FALSE ]

\* The residentStats documents the transaction sets with merge: one for each
\* resident of an assignment that is not a post-call day.
ResidentStatsDocs(call, generated) ==
    { [ id |-> StatsId(generated[k].residentId, call.data.year, call.data.month),
        residentId |-> generated[k].residentId,
        month |-> << call.data.year, call.data.month + 1 >> ] :
      k \in { j \in DOMAIN generated : generated[j].type # "PostCall" } }

\* What generateMonthlySchedule caches, and what it returns after generating.
MonthlyCached(call, generated) ==
    [ assignments |-> generated,
      scheduleId |-> ScheduleId(call.data.year, call.data.month) ]

MonthlyResult(call, generated) ==
    [ success |-> TRUE,
      scheduleId |-> ScheduleId(call.data.year, call.data.month),
      assignmentCount |-> Len(generated),
      metadata |-> [ totalCalls |-> TotalCallsOf(generated),
                     uniqueResidents |-> UniqueResidentsOf(generated),
                     staffingLevel |-> call.data.staffingLevel ] ]

\* An entry of auditLogs.
AuditLog(action, call, subject) ==
    [ action |-> action, performedBy |-> call.context.auth.uid, subject |-> subject ]

\* What engine.generateSchedule() resolves to for the validated data: the
\* run itself is the specification YearlySpec; the callable function only
\* stores, caches and returns it.
YearlyScheduleOf(data) ==
    [ id |-> data.academicYearId, residents |-> data.residents ]

YearlyResult(data) ==
    [ success |-> TRUE, scheduleId |-> data.academicYearId,
      schedule |-> YearlyScheduleOf(data) ]

\* generator.generate() of WeeklyScheduleGenerator: a schedule with an id, a
\* year and its days, for the week that starts on weekStartDate.
WeeklyScheduleOf(data) ==
    [ id |-> << "week", data.weekStartDate >>,
      year |-> GetFullYear(data.weekStartDate),
      days |-> [ k \in 1 .. 7 |-> data.weekStartDate + k - 1 ] ]

WeeklyResult(data) ==
    [ success |-> TRUE, scheduleId |-> WeeklyScheduleOf(data).id,
      daysScheduled |-> Len(WeeklyScheduleOf(data).days) ]

\* The caller's context, the validated data and the calls chosen for a run.
RpcContext(uid, isAdmin) ==
    [ auth |-> [ uid |-> uid, token |-> [ admin |-> isAdmin ] ] ]

NoOutcome == [ pending |-> TRUE ]

RpcCall(rpc, uid, isAdmin, data) ==
    [ rpc |-> rpc, context |-> RpcContext(uid, isAdmin), data |-> data,
      pc |-> "start", generated |-> << >>, outcome |-> NoOutcome, did |-> {},
      after |-> {} ]

MonthlyData ==
    [ month : { 8 }, year : { 2025 }, staffingLevel : { "Normal", "Shortage" },
      forceRegenerate : BOOLEAN ]

YearlyData ==
    [ academicYearId : { AcademicYearId(2026) }, residents : { 2 },
      forceRegenerate : BOOLEAN ]

WeeklyData == [ weekStartDate : { NewDate(2025, 8, 1) } ]

\* The store before the calls: two residents on service and one off it, the
\* configuration and the academic year of September 2025, no schedule yet.
FullStore ==
    [ residents |-> { [ id |-> 1, onService |-> TRUE ], [ id |-> 2, onService |-> TRUE ],
                      [ id |-> 3, onService |-> FALSE ] },
      configuration |-> { [ id |-> "main" ] },
      academicYears |-> { [ id |-> AcademicYearId(2025) ] },
      monthlySchedules |-> {},
      residentStats |-> {},
      weeklySchedules |-> {},
      auditLogs |-> << >> ]

\* The same store without a resident on service, without configuration/main,
\* without the academic year.
MonthlyStores ==
    { FullStore,
      [ FullStore EXCEPT !.residents = { r \in @ : ~r.onService } ],
      [ FullStore EXCEPT !.configuration = {} ],
      [ FullStore EXCEPT !.academicYears = {} ] }

\* Calls of generateMonthlySchedule by administrators.
MonthlyRpcInit ==
    /\ IdleMonthly
    /\ IdleMaxCalls
    /\ IdleYearly
    /\ IdleAnalyzer
    /\ IdleCalls
    /\ firestore \in MonthlyStores
    /\ cache = << >>
    /\ \E n \in 1 .. MaxRpcCalls :
           rpcs \in [ 1 .. n -> { RpcCall("generateMonthlySchedule", 0, TRUE, data) :
                                   data \in MonthlyData } ]

\* Calls of the three functions, by administrators and by others. The uid of
\* a call's context is filled in with the call's number.
RpcCalls ==
    { RpcCall("generateMonthlySchedule", 0, isAdmin, data) :
        isAdmin \in BOOLEAN, data \in { d \in MonthlyData : d.staffingLevel = "Normal" } }
    \cup { RpcCall("generateYearlySchedule", 0, isAdmin, data) :
             isAdmin \in BOOLEAN, data \in { d \in YearlyData : ~d.forceRegenerate } }
    \cup { RpcCall("generateWeeklySchedule", 0, isAdmin, data) :
             isAdmin \in BOOLEAN, data \in WeeklyData }

RpcInit ==
    /\ IdleMonthly
    /\ IdleMaxCalls
    /\ IdleYearly
    /\ IdleAnalyzer
    /\ IdleCalls
    /\ firestore = FullStore
    /\ cache = << >>
    /\ \E n \in 1 .. MaxRpcCalls : rpcs \in [ 1 .. n -> RpcCalls ]

\* The uid of call c.
Uid(c) == c

Caller(c) == [ rpcs[c] EXCEPT !.context.auth.uid = Uid(c) ]

\* The calls that have ended.
Ended == { c \in DOMAIN rpcs : rpcs[c].pc \in { "returned", "failed" } }

\* Call c goes on to a label, or ends, having done the things named. With
\* its first step a call notes the calls that had ended before it began.
Began(c) == IF rpcs[c].pc = "start" THEN Ended ELSE rpcs[c].after

RpcGoto(c, label, done) ==
    rpcs' = [ rpcs EXCEPT ![c].pc = label, ![c].did = @ \cup done, ![c].after = Began(c) ]

RpcFails(c, code, done) ==
    rpcs' = [ rpcs EXCEPT ![c].pc = "failed", ![c].outcome = Threw(code),
                          ![c].did = @ \cup done, ![c].after = Began(c) ]

RpcReturns(c, value, done) ==
    rpcs' = [ rpcs EXCEPT ![c].pc = "returned", ![c].outcome = Returned(value),
                          ![c].did = @ \cup done, ![c].after = Began(c) ]

At(c, rpc, label) == rpcs[c].rpc = rpc /\ rpcs[c].pc = label

\* generateMonthlySchedule, up to its first await: a caller who is not an
\* administrator is refused.
MonthlyDenied(c) ==
    /\ At(c, "generateMonthlySchedule", "start")
    /\ ~IsAdmin(rpcs[c].context)
    /\ RpcFails(c, "permission-denied", {})
    /\ UNCHANGED << firestore, cache, notRpc >>

\* await CacheService.get(cacheKey): a cached value is returned unless the
\* caller forces a regeneration.
MonthlyCacheGet(c) ==
    /\ At(c, "generateMonthlySchedule", "start")
    /\ IsAdmin(rpcs[c].context)
    /\ LET data == rpcs[c].data
           cached == CacheGet(cache, MonthlyCacheKey(data.year, data.month, data.staffingLevel))
       IN  IF IsCached(cached) /\ ~data.forceRegenerate
           THEN RpcReturns(c, cached, { "cache.get" })
           ELSE RpcGoto(c, "fetch", { "cache.get" })
    /\ UNCHANGED << firestore, cache, notRpc >>

\* The four fetches of Promise.all, then generateSchedule and
\* validateGeneratedSchedule on what they gave.
MonthlyGenerated(c, roster) ==
    LET data == rpcs[c].data
        generated == GenerateScheduleOf(roster, data.year, data.month, data.staffingLevel)
    IN  IF ~ValidateGeneratedSchedule(generated, roster)
        THEN RpcFails(c, "invalid-argument", { "read", "generate" })
        ELSE rpcs' = [ rpcs EXCEPT ![c].pc = "transaction", ![c].generated = generated,
                                   ![c].did = @ \cup { "read", "generate" } ]

MonthlyFetchAndGenerate(c) ==
    /\ At(c, "generateMonthlySchedule", "fetch")
    /\ LET fetched == << GetResidents(firestore), GetConfigurationMain(firestore),
                         GetAcademicYear(firestore, AcademicYearId(rpcs[c].data.year)) >>
           thrown == { k \in 1 .. 3 : HasThrown(fetched[k]) }
       IN  IF thrown # {}
           THEN \E k \in thrown : RpcFails(c, fetched[k].threw, { "read" })
           ELSE MonthlyGenerated(c, fetched[1].returned)
    /\ UNCHANGED << firestore, cache, notRpc >>

\* runTransaction: the transaction reads the schedule's document, refuses to
\* replace it unless forced, and otherwise sets it and the residents' stats;
\* the read and the sets take effect together.
SetWithoutReading(fs, call) ==
    Returned([ fs EXCEPT !.monthlySchedules =
                             SetDoc(@, ScheduleId(call.data.year, call.data.month),
                                    MonthlyScheduleDoc(call, call.generated)),
                         !.residentStats = @ \cup ResidentStatsDocs(call, call.generated) ])

RunTransaction(fs, call) ==
    IF /\ DocsAt(fs.monthlySchedules, ScheduleId(call.data.year, call.data.month)) # {}
       /\ ~call.data.forceRegenerate
    THEN Threw("already-exists")
    ELSE Returned([ fs EXCEPT !.monthlySchedules =
                                  SetDoc(@, ScheduleId(call.data.year, call.data.month),
                                         MonthlyScheduleDoc(call, call.generated)),
                              !.residentStats =
                                  @ \cup ResidentStatsDocs(call, call.generated) ])

MonthlyRunTransaction(c) ==
    /\ At(c, "generateMonthlySchedule", "transaction")
    /\ LET committed == RunTransaction(firestore, Caller(c))
       IN  IF HasThrown(committed)
           THEN /\ RpcFails(c, committed.threw, { "transaction.get" })
                /\ UNCHANGED firestore
           ELSE /\ firestore' = committed.returned
                /\ RpcGoto(c, "cacheSet", { "transaction.get", "write" })
    /\ UNCHANGED << cache, notRpc >>

\* await CacheService.set(cacheKey, { assignments, scheduleId }, 600)
MonthlyCacheSet(c) ==
    /\ At(c, "generateMonthlySchedule", "cacheSet")
    /\ LET data == rpcs[c].data
       IN  cache' = CacheSet(cache, MonthlyCacheKey(data.year, data.month, data.staffingLevel),
                             MonthlyCached(rpcs[c], rpcs[c].generated))
    /\ RpcGoto(c, "audit", { "cache.set" })
    /\ UNCHANGED << firestore, notRpc >>

\* await auditLogs.add(...), then the return.
MonthlyAudit(c) ==
    /\ At(c, "generateMonthlySchedule", "audit")
    /\ firestore' = [ firestore EXCEPT !.auditLogs =
                          Append(@, AuditLog("MONTHLY_SCHEDULE_GENERATED", Caller(c),
                                             ScheduleId(rpcs[c].data.year, rpcs[c].data.month))) ]
    /\ RpcReturns(c, MonthlyResult(rpcs[c], rpcs[c].generated), { "audit" })
    /\ UNCHANGED << cache, notRpc >>

\* An await of a call rejects (the cache or the store is unavailable): the
\* call ends with the error, and what it did before stays done.
RpcAwaitRejects(c) ==
    /\ rpcs[c].pc \in { "fetch", "transaction", "cacheSet", "audit", "generate",
                        "invalidate" }
    /\ RpcFails(c, "internal", {})
    /\ UNCHANGED << firestore, cache, notRpc >>

\* An entry of the cache reaches its time to live (600 s, 3600 s).
CacheExpires(key) ==
    /\ key \in DOMAIN cache
    /\ cache' = [ k \in DOMAIN cache \ { key } |-> cache[k] ]
    /\ UNCHANGED << firestore, rpcs, notRpc >>

\* generateYearlySchedule.
YearlyDenied(c) ==
    /\ At(c, "generateYearlySchedule", "start")
    /\ ~IsAdmin(rpcs[c].context)
    /\ RpcFails(c, "permission-denied", {})
    /\ UNCHANGED << firestore, cache, notRpc >>

YearlyCacheGet(c) ==
    /\ At(c, "generateYearlySchedule", "start")
    /\ IsAdmin(rpcs[c].context)
    /\ LET cached == CacheGet(cache, YearlyCacheKey(rpcs[c].data.academicYearId))
       IN  IF IsCached(cached) /\ ~rpcs[c].data.forceRegenerate
           THEN RpcReturns(c, cached, { "cache.get" })
           ELSE RpcGoto(c, "generate", { "cache.get" })
    /\ UNCHANGED << firestore, cache, notRpc >>

\* engine.generateSchedule(), then academicYears/{academicYearId}.set(schedule).
YearlyGenerateAndSet(c) ==
    /\ At(c, "generateYearlySchedule", "generate")
    /\ firestore' = [ firestore EXCEPT !.academicYears =
                          SetDoc(@, rpcs[c].data.academicYearId, YearlyScheduleOf(rpcs[c].data)) ]
    /\ RpcGoto(c, "cacheSet", { "generate", "write" })
    /\ UNCHANGED << cache, notRpc >>

YearlyCacheSet(c) ==
    /\ At(c, "generateYearlySchedule", "cacheSet")
    /\ cache' = CacheSet(cache, YearlyCacheKey(rpcs[c].data.academicYearId),
                         YearlyScheduleOf(rpcs[c].data))
    /\ RpcGoto(c, "audit", { "cache.set" })
    /\ UNCHANGED << firestore, notRpc >>

YearlyAudit(c) ==
    /\ At(c, "generateYearlySchedule", "audit")
    /\ firestore' = [ firestore EXCEPT !.auditLogs =
                          Append(@, AuditLog("YEARLY_SCHEDULE_GENERATED", Caller(c),
                                             rpcs[c].data.academicYearId)) ]
    /\ RpcReturns(c, YearlyResult(rpcs[c].data), { "audit" })
    /\ UNCHANGED << cache, notRpc >>

\* generateWeeklySchedule.
WeeklyDenied(c) ==
    /\ At(c, "generateWeeklySchedule", "start")
    /\ ~IsAdmin(rpcs[c].context)
    /\ RpcFails(c, "permission-denied", {})
    /\ UNCHANGED << firestore, cache, notRpc >>

\* generator.generate(), then weeklySchedules/{id}.set(weeklySchedule).
WeeklyGenerateAndSet(c) ==
    /\ At(c, "generateWeeklySchedule", "start")
    /\ IsAdmin(rpcs[c].context)
    /\ firestore' = [ firestore EXCEPT !.weeklySchedules =
                          SetDoc(@, WeeklyScheduleOf(rpcs[c].data).id,
                                 WeeklyScheduleOf(rpcs[c].data)) ]
    /\ RpcGoto(c, "invalidate", { "generate", "write" })
    /\ UNCHANGED << cache, notRpc >>

\* await CacheService.invalidate(`weekly:${weeklySchedule.year}*`), then the return.
WeeklyInvalidate(c) ==
    /\ At(c, "generateWeeklySchedule", "invalidate")
    /\ cache' = CacheInvalidate(cache, << "weekly", WeeklyScheduleOf(rpcs[c].data).year >>)
    /\ RpcReturns(c, WeeklyResult(rpcs[c].data), { "cache.invalidate" })
    /\ UNCHANGED << firestore, notRpc >>

MonthlyRpcNext ==
    \/ \E c \in DOMAIN rpcs : MonthlyCacheGet(c)
    \/ \E c \in DOMAIN rpcs : MonthlyFetchAndGenerate(c)
    \/ \E c \in DOMAIN rpcs : MonthlyRunTransaction(c)
    \/ \E c \in DOMAIN rpcs : MonthlyCacheSet(c)
    \/ \E c \in DOMAIN rpcs : MonthlyAudit(c)
    \/ \E c \in DOMAIN rpcs : RpcAwaitRejects(c)
    \/ \E key \in DOMAIN cache : CacheExpires(key)

MonthlyRpcSpec == MonthlyRpcInit /\ [][MonthlyRpcNext]_vars

RpcNext ==
    \/ MonthlyRpcNext
    \/ \E c \in DOMAIN rpcs : MonthlyDenied(c)
    \/ \E c \in DOMAIN rpcs : YearlyDenied(c)
    \/ \E c \in DOMAIN rpcs : YearlyCacheGet(c)
    \/ \E c \in DOMAIN rpcs : YearlyGenerateAndSet(c)
    \/ \E c \in DOMAIN rpcs : YearlyCacheSet(c)
    \/ \E c \in DOMAIN rpcs : YearlyAudit(c)
    \/ \E c \in DOMAIN rpcs : WeeklyDenied(c)
    \/ \E c \in DOMAIN rpcs : WeeklyGenerateAndSet(c)
    \/ \E c \in DOMAIN rpcs : WeeklyInvalidate(c)

RpcSpec == RpcInit /\ [][RpcNext]_vars

-----------------------------------------------------------------------------
(* Properties of the callable functions                                    *)

\* The stored schedule of the month the calls ask for, as a set of none or one.
StoredSchedule(fs) == DocsAt(fs.monthlySchedules, ScheduleId(2025, 8))

\* The calls that have set the schedule's document, without force.
UnforcedWriters ==
    { c \in DOMAIN rpcs : "write" \in rpcs[c].did /\ ~rpcs[c].data.forceRegenerate }

\* Call c runs its transaction in this step.
RunsTransaction(c) ==
    /\ "transaction.get" \notin rpcs[c].did
    /\ "transaction.get" \in rpcs'[c].did

\* C21: generateMonthlySchedule never overwrites an existing schedule document
\* when forceRegenerate is false. Under every interleaving of calls for the
\* month, whatever their staffing levels and whether the cache is hit or not,
\* a call whose transaction runs while the document exists fails with
\* already-exists and leaves the store as it was, and the document is
\* written at most once by calls without force.
C21_NeverOverwrittenWithoutForce ==
    /\ [](Cardinality(UnforcedWriters) <= 1)
    /\ [][\A c \in DOMAIN rpcs :
            ( /\ RunsTransaction(c)
              /\ ~rpcs[c].data.forceRegenerate
              /\ StoredSchedule(firestore) # {} )
            => ( /\ rpcs'[c].outcome = Threw("already-exists")
                 /\ firestore' = firestore )]_vars

\* Two calls without force at different staffing levels: one has written the
\* document, the other found it and failed.
C21_Witness ==
    \E c, o \in DOMAIN rpcs :
        /\ c \in UnforcedWriters
        /\ ~rpcs[o].data.forceRegenerate
        /\ rpcs[o].data.staffingLevel # rpcs[c].data.staffingLevel
        /\ rpcs[o].outcome = Threw("already-exists")
        /\ StoredSchedule(firestore) = { MonthlyScheduleDoc(Caller(c), rpcs[c].generated) }

\* A second call: it began after the first had returned, it asks for the same
\* month, year and staffing level, neither forces a regeneration, and it has
\* ended.
SecondCallOf(first, second) ==
    /\ first \in rpcs[second].after
    /\ rpcs[first].pc = "returned"
    /\ rpcs[second].pc \in { "returned", "failed" }
    /\ rpcs[second].data = rpcs[first].data
    /\ ~rpcs[first].data.forceRegenerate

\* C22: a second call of generateMonthlySchedule with the same month, year and
\* staffing level and forceRegenerate = false returns a result identical to
\* the first call's result, and performs no regeneration and no write.
C22_SecondCallReturnsTheSame ==
    \A first, second \in DOMAIN rpcs :
        SecondCallOf(first, second)
        => /\ rpcs[second].outcome = rpcs[first].outcome
           /\ rpcs[second].did \cap { "generate", "write" } = {}

\* The calls made by a caller without the admin claim.
NotAdmin == { c \in DOMAIN rpcs : ~rpcs[c].context.auth.token.admin }

\* C23: each of generateYearlySchedule, generateMonthlySchedule and
\* generateWeeklySchedule, called by a caller without the admin claim, fails
\* with permission-denied before any read, cache access, generation or
\* write: the call has done nothing, and its steps leave the store, the
\* cache and the audit log as they were.
C23_NonAdminRefusedFirst ==
    /\ [](\A c \in NotAdmin :
            /\ rpcs[c].did = {}
            /\ \/ rpcs[c].pc = "start"
               \/ rpcs[c].pc = "failed" /\ rpcs[c].outcome = Threw("permission-denied"))
    /\ [][\A c \in NotAdmin :
            rpcs'[c] # rpcs[c] => firestore' = firestore /\ cache' = cache]_vars

\* A caller without the admin claim has been refused while an administrator's
\* call has written to the store.
C23_Witness ==
    \E c \in NotAdmin, o \in DOMAIN rpcs \ NotAdmin :
        /\ rpcs[c].outcome = Threw("permission-denied")
        /\ o \in rpcs[c].after
        /\ "write" \in rpcs[o].did
        /\ firestore # FullStore

\* The store lacks the on-service roster, configuration/main or the academic
\* year of the month asked for.
RequiredDataMissing(fs, data) ==
    \/ { r \in fs.residents : r.onService } = {}
    \/ fs.configuration = {}
    \/ DocsAt(fs.academicYears, AcademicYearId(data.year)) = {}

\* C24: when the configuration document, the academic-year document or the
\* on-service roster is missing, a call of generateMonthlySchedule that has
\* fetched its data fails with the error kind not-found and writes no schedule.
C24_MissingDataIsNotFound ==
    \A c \in DOMAIN rpcs :
        ( /\ RequiredDataMissing(firestore, rpcs[c].data)
          /\ "read" \in rpcs[c].did )
        => /\ rpcs[c].outcome = Threw("not-found")
           /\ "write" \notin rpcs[c].did
           /\ StoredSchedule(firestore) = {}

-----------------------------------------------------------------------------
(* Further properties of the monthly call scheduler                        *)

\* The residents of a list that selectBestResident may choose from.
EligibleNotSelected(list, stats, date, level, excludeIds) ==
    { list[i] : i \in { j \in 1..Len(list) :
                          /\ list[j].id \notin excludeIds
                          /\ IsEligibleForCall(stats, list[j], date, level) } }

\* r comes before o: higher score, then fewer calls so far, then smaller id.
ComesBefore(stats, date, callType, r, o) ==
    LET sr == ScoreResident(stats, r, date, callType)
        so == ScoreResident(stats, o, date, callType)
    IN  \/ sr > so
        \/ sr = so /\ stats[r.id].totalCalls < stats[o.id].totalCalls
        \/ sr = so /\ stats[r.id].totalCalls = stats[o.id].totalCalls /\ r.id <= o.id

\* The resident the stated rule names among the candidates.
BestByRule(candidates, stats, date, callType) ==
    IF candidates = {} THEN NoResident
    ELSE CHOOSE r \in candidates :
             \A o \in candidates : ComesBefore(stats, date, callType, r, o)

\* selectBestResident agrees with the stated rule on a run's next slot.
SelectsByRule(list, run) ==
    LET excludeIds == { run.selectedResidents[i].id : i \in 1..Len(run.selectedResidents) }
    IN  SelectBestResident(list, run.callStats, CurrentDay.date, CurrentDay.callType,
                           staffingLevel, excludeIds)
        = BestByRule(EligibleNotSelected(list, run.callStats, CurrentDay.date,
                                         staffingLevel, excludeIds),
                     run.callStats, CurrentDay.date, CurrentDay.callType)

\* C25: for every slot, selectBestResident returns the eligible, not yet
\* selected resident with the highest score; among residents of equal highest
\* score the one with the smaller current call count, and among those the
\* one with the smaller resident id. Stated for the run on the residents list
\* and for the run on the same list in reverse order.
C25_BestResidentByScoreCallsId ==
    (InDayLoop /\ CurrentDay.callType # "None")
    => /\ SelectsByRule(residents, ThisRun)
       /\ SelectsByRule(Reverse(residents), reordered)

\* The calls of a resident in the 28 days before a date.
CallsInLookBack(residentId, date) ==
    { j \in CallsOf(residentId) :
        assignments[j].date >= date - 28 /\ assignments[j].date < date }

\* C26: in every returned schedule, for every resident r and every call of r
\* on a day d, r holds at most 6 other calls on days in [d - 28, d): the
\* 28-day look-back rule holds in the final schedule, although the days are
\* assigned in priority order and not in calendar order.
C26_LookBackHoldsInReturnedSchedule ==
    Done => \A i \in Calls :
                Cardinality(CallsInLookBack(assignments[i].residentId,
                                            assignments[i].date)) <= 6

\* The post-call entries of the list for a resident on a date.
PostCallsOf(residentId, date) ==
    { j \in 1..Len(assignments) :
        /\ assignments[j].type = "PostCall"
        /\ assignments[j].residentId = residentId
        /\ assignments[j].date = date }

\* C27: for every call of resident r on day D emitted by generateSchedule: if
\* D+1 is within the month, the list holds exactly one PostCall assignment
\* for r on D+1, with 0 points and status PostCall; if D is the last day of
\* the month, no PostCall is emitted for it; and no PostCall exists without a
\* call of the same resident on the day before.
C27_PostCallFollowsEachCall ==
    /\ \A i \in Calls :
          LET postCalls == PostCallsOf(assignments[i].residentId, assignments[i].date + 1)
          IN  IF assignments[i].date + 1 \in MonthDates
              THEN /\ Cardinality(postCalls) = 1
                   /\ \A j \in postCalls : /\ assignments[j].points = 0
                                           /\ assignments[j].status = "PostCall"
              ELSE postCalls = {}
    /\ \A j \in 1..Len(assignments) :
          assignments[j].type = "PostCall"
          => /\ assignments[j].date \in MonthDates
             /\ \E i \in Calls : /\ assignments[i].residentId = assignments[j].residentId
                                 /\ assignments[i].date = assignments[j].date - 1

\* A returned schedule with a call on the last day of the month and a call
\* earlier in the month followed by its post-call day.
C27_Witness ==
    /\ Done
    /\ \E i, k \in Calls :
          /\ assignments[i].date = NewDate(year, month + 1, 0)
          /\ assignments[k].date < assignments[i].date
          /\ PostCallsOf(assignments[k].residentId, assignments[k].date + 1) # {}

\* The slot in hand is a required one.
AtRequiredSlot == InDayLoop /\ CurrentDay.callType # "None"

\* The days of dayRequirements that hold a call in the list.
HoldsCall(k) == { i \in Calls : assignments[i].date = dayRequirements[k].date } # {}

\* C29: generateSchedule always terminates and returns a list. When no
\* eligible resident exists for a required slot (an empty roster and a month
\* no block holds included) the slot is left unfilled and the run goes on
\* with the next slot; every later day is still processed, and a slot with
\* an eligible resident is filled with one of them.
C29_TerminatesLeavingSlotsUnfilled ==
    /\ <>Done
    /\ [](Done => pc.day = Len(dayRequirements) + 1)
    /\ [][AtRequiredSlot =>
            LET candidates ==
                    EligibleNotSelected(residents, callStats, CurrentDay.date, staffingLevel,
                        { selectedResidents[j].id : j \in 1..Len(selectedResidents) })
                required == StatedCoverage(CurrentDay.callType)
            IN  /\ pc' = IF pc.slot + 1 >= required
                         THEN [ pc EXCEPT !.day = @ + 1, !.slot = 0 ]
                         ELSE [ pc EXCEPT !.slot = @ + 1 ]
                /\ candidates = {} => assignments' = assignments
                /\ candidates # {} =>
                      /\ Len(assignments') > Len(assignments)
                      /\ assignments'[Len(assignments) + 1].date = CurrentDay.date
                      /\ assignments'[Len(assignments) + 1].type = CurrentDay.callType
                      /\ \E r \in candidates :
                             assignments'[Len(assignments) + 1].residentId = r.id]_vars

\* A returned schedule in which a required day was left without any call and
\* a day processed after it holds one.
C29_Witness ==
    /\ Done
    /\ \E k, l \in DOMAIN dayRequirements :
          /\ k < l
          /\ dayRequirements[k].callType # "None"
          /\ ~HoldsCall(k)
          /\ HoldsCall(l)

\* C30: the eligibility check of the monthly scheduler rejects every resident
\* whose onService flag is false: such a resident, even on a CORE_NSX rotation
\* and with no other obstacle, never receives a call from generateSchedule.
C30_NoCallForOffServiceResident ==
    \A i \in Calls : ResidentById(assignments[i].residentId).onService

\* The resident has a leave request, pending or denied, that spans the date.
RequestedLeaveSpans(residentId, date) ==
    \E i \in 1..Len(approvedLeave) :
        /\ approvedLeave[i].residentId = residentId
        /\ approvedLeave[i].status \in { "Pending Approval", "Denied" }
        /\ date >= approvedLeave[i].startDate
        /\ date <= approvedLeave[i].endDate

\* C31: scoreResident subtracts 50 from the score of a resident exactly when
\* the resident has a leave request that is pending or denied and spans the
\* scored date: at every required slot, the residents whose score carries
\* the penalty (hasRequestedTimeOff) are those with such a request.
C31_PenaltyForPendingOrDeniedLeave ==
    AtRequiredSlot =>
        \A i \in 1..Len(residents) :
            HasRequestedTimeOff(residents[i].id, CurrentDay.date)
                <=> RequestedLeaveSpans(residents[i].id, CurrentDay.date)

\* ---------------------------------------------------------------------------
\* The functions of the leave analyzer called on their own: one call of
\* generateRecommendation, analyzeCoverageImpact, checkPolicyCompliance,
\* calculateFairness or performComprehensiveAnalysis on given arguments.
\* ---------------------------------------------------------------------------

\* n Neurosurgery residents on service, of ids 1..n and PGY 3.
ServiceOf(n) == { ResidentDoc(i, 3, "Neurosurgery", TRUE) : i \in 1..n }

\* The approved leave of k colleagues (ids 2..k+1) over the same days.
ColleagueLeave(k, startDate, endDate) ==
    [ i \in 1..k |-> LeaveRequest(i + 1, "Personal", "Approved", startDate, endDate) ]

\* Periods of August 2025 with 0, 2, 3, 4, 5 and 6 weekend days.
CoveragePeriods ==
    { << NewDate(2025, 7, 4), NewDate(2025, 7, 6) >>,
      << NewDate(2025, 7, 8), NewDate(2025, 7, 10) >>,
      << NewDate(2025, 7, 9), NewDate(2025, 7, 16) >>,
      << NewDate(2025, 7, 2), NewDate(2025, 7, 10) >>,
      << NewDate(2025, 7, 2), NewDate(2025, 7, 16) >>,
      << NewDate(2025, 7, 2), NewDate(2025, 7, 17) >> }

\* A request of resident 1 for the period in a database of n residents on
\* service, k of whose colleagues are on approved leave from 1 to 20 August.
CoverageDatabase(period, n, k) ==
    Database(period, ServiceOf(n),
             ColleagueLeave(k, NewDate(2025, 7, 1), NewDate(2025, 7, 20)),
             NoSchedules, DefaultPolicy, "Pending Analysis")

ServiceSizes == { 0, 1, 2, 3, 5, 6, 10 }

CoverageCalls ==
    { [ fn |-> "analyzeCoverageImpact", d |-> CoverageDatabase(period, n, k),
        request |-> WithId(RequestId, CoverageDatabase(period, n, k).leaveRequests[RequestId]) ] :
        period \in CoveragePeriods, n \in ServiceSizes, k \in 0..2 }

\* A FairnessAnalysis of the score.
FairnessOf(score) ==
    [ score |-> score, historicalRate |-> Quotient(1, 2), recentDaysOff |-> 0,
      peerComparison |-> Quotient(0, 10), recommendations |-> << >> ]

\* The conflicts checkScheduleConflicts can list: none, a clinic, a call, both.
ConflictLists ==
    LET clinic == [ type |-> "Clinic", date |-> NewDate(2025, 7, 5),
                    description |-> "Spine", severity |-> "Medium" ]
        call == [ type |-> "Call", date |-> NewDate(2025, 7, 9),
                  description |-> "Weekend", severity |-> "High" ]
    IN  { << >>, << clinic >>, << call >>, << clinic, call >> }

\* The results of checkPolicyCompliance with 0, 1, 2 and 3 violations.
PolicyResults ==
    LET all == << Message("Less than {} days notice provided", << 30 >>),
                  Message("Exceeds maximum {} consecutive days", << 14 >>),
                  Message("Would exceed annual limit of {} days", << 21 >>) >>
    IN  { [ isCompliant |-> k = 0, violations |-> SubSeq(all, 1, k) ] : k \in 0..3 }

RecommendationCalls ==
    { [ fn |-> "generateRecommendation", fairness |-> FairnessOf(score),
        coverage |-> AnalyzeCoverageImpact(CoverageDatabase(period, n, 0), RequestId,
                                           period[1], period[2]),
        conflicts |-> conflicts, policyCompliance |-> policy ] :
        score \in { 0, 39, 40, 100 },
        period \in { p \in CoveragePeriods : p[2] - p[1] \in { 2, 15 } },
        n \in { 1, 2, 3, 5 },
        conflicts \in ConflictLists, policy \in PolicyResults }

\* generateRecommendation(fairness, coverage, conflicts, policyCompliance)
CallGenerateRecommendation ==
    /\ analysisCall.fn = "generateRecommendation"
    /\ analysisReturn = << >>
    /\ analysisReturn' = GenerateRecommendation(analysisCall.fairness,
                              analysisCall.coverage, analysisCall.conflicts,
                              analysisCall.policyCompliance)
    /\ UNCHANGED << analysisCall, notCalls >>

\* analyzeCoverageImpact(request) on the database
CallAnalyzeCoverageImpact ==
    /\ analysisCall.fn = "analyzeCoverageImpact"
    /\ analysisReturn = << >>
    /\ analysisReturn' = AnalyzeCoverageImpact(analysisCall.d,
                              analysisCall.request.residentId,
                              analysisCall.request.startDate,
                              analysisCall.request.endDate)
    /\ UNCHANGED << analysisCall, notCalls >>

\* A leavePolicy with every limit configured, 0 included.
LeavePolicies ==
    [ minNoticeDays : { 0, 7, 30 }, maxConsecutiveDays : { 0, 2, 14 },
      annualLimit : { 0, 13, 21 } ]

\* What getHistoricalLeave can return for resident 1 on Today, besides the
\* request itself: nothing; twelve approved days of this year; six approved
\* days of last December; a denied request.
HistoricalLeaveChoices ==
    { {},
      { WithId(2, LeaveRequest(1, "Personal", "Approved",
                               NewDate(2025, 1, 3), NewDate(2025, 1, 14))) },
      { WithId(2, LeaveRequest(1, "Personal", "Approved",
                               NewDate(2024, 11, 10), NewDate(2024, 11, 15))) },
      { WithId(2, LeaveRequest(1, "Personal", "Denied",
                               NewDate(2025, 1, 3), NewDate(2025, 1, 14))) } }

PolicyCalls ==
    { [ fn |-> "checkPolicyCompliance",
        request |-> WithId(RequestId,
                           LeaveRequest(1, type, "Pending Analysis", Today + notice,
                                        Today + notice + days - 1)),
        historicalLeave |-> historicalLeave,
        configuration |-> [ leavePolicy |-> policy ],
        today |-> Today ] :
        type \in { "Personal", "Compassionate" }, notice \in { 6, 7, 29, 30 },
        days \in { 1, 3, 14, 15 }, historicalLeave \in HistoricalLeaveChoices,
        policy \in LeavePolicies }

\* checkPolicyCompliance(request, resident, historicalLeave, config) at Date.now()
CallCheckPolicyCompliance ==
    /\ analysisCall.fn = "checkPolicyCompliance"
    /\ analysisReturn = << >>
    /\ analysisReturn' = CheckPolicyCompliance(analysisCall.request,
                              analysisCall.historicalLeave,
                              analysisCall.configuration, analysisCall.today)
    /\ UNCHANGED << analysisCall, notCalls >>

\* What getPeerComparisonData can return: the days of approved leave of the
\* peers over their number.
PeerDataChoices ==
    { [ peerCount |-> count, averageDaysOff |-> Quotient(totalDays, count) ] :
        count \in { 1, 2, 3 }, totalDays \in { 0, 10, 13, 16, 40 } }

FairnessCalls ==
    { [ fn |-> "calculateFairness",
        request |-> WithId(RequestId,
                           LeaveRequest(1, "Personal", "Pending Analysis",
                                        NewDate(2025, 7, 4), NewDate(2025, 7, 6))),
        historicalLeave |->
            IF days = 0 THEN {}
            ELSE { WithId(2, LeaveRequest(1, "Personal", "Approved",
                                          NewDate(2025, 1, 3),
                                          NewDate(2025, 1, 3) + days - 1)) },
        resident |-> ResidentDoc(1, pgyLevel, "Neurosurgery", TRUE),
        peerData |-> peerData ] :
        days \in { 0, 5, 6, 10, 11, 13, 15, 16 }, pgyLevel \in { 1, 3, 5 },
        peerData \in PeerDataChoices }

\* calculateFairness(request, historicalLeave, resident, peerData)
CallCalculateFairness ==
    /\ analysisCall.fn = "calculateFairness"
    /\ analysisReturn = << >>
    /\ analysisReturn' = CalculateFairness(analysisCall.request,
                              analysisCall.historicalLeave, analysisCall.resident,
                              analysisCall.peerData)
    /\ UNCHANGED << analysisCall, notCalls >>

\* A request of resident 1 from 4 to 6 August in a service of n residents,
\* k colleagues being on approved leave from 1 to 10 August.
ShortLeaveDatabase(n, k) ==
    Database(<< NewDate(2025, 7, 4), NewDate(2025, 7, 6) >>, ServiceOf(n),
             ColleagueLeave(k, NewDate(2025, 7, 1), NewDate(2025, 7, 10)),
             NoSchedules, DefaultPolicy, "Pending Analysis")

AnalysisCalls ==
    { [ fn |-> "performComprehensiveAnalysis", d |-> d, today |-> Today,
        request |-> WithId(RequestId, d.leaveRequests[RequestId]) ] :
        d \in { CoverageDatabase(period, n, k) :
                  period \in CoveragePeriods, n \in ServiceSizes, k \in 0..2 }
              \cup { ShortLeaveDatabase(n, k) : n \in { 5, 10 }, k \in 1..2 } }

\* performComprehensiveAnalysis(request) on the database at Date.now()
CallPerformComprehensiveAnalysis ==
    /\ analysisCall.fn = "performComprehensiveAnalysis"
    /\ analysisReturn = << >>
    /\ analysisReturn' = PerformComprehensiveAnalysis(analysisCall.d,
                              analysisCall.today, analysisCall.request)
    /\ UNCHANGED << analysisCall, notCalls >>

CallsInit ==
    /\ IdleMonthly
    /\ IdleMaxCalls
    /\ IdleYearly
    /\ IdleAnalyzer
    /\ IdleRpc
    /\ analysisCall \in RecommendationCalls \cup CoverageCalls \cup PolicyCalls
                          \cup FairnessCalls \cup AnalysisCalls
    /\ analysisReturn = << >>

CallsNext ==
    \/ CallGenerateRecommendation
    \/ CallAnalyzeCoverageImpact
    \/ CallCheckPolicyCompliance
    \/ CallCalculateFairness
    \/ CallPerformComprehensiveAnalysis

CallsSpec == CallsInit /\ [][CallsNext]_vars

\* The call of the function has returned.
HasReturned(fn) == analysisCall.fn = fn /\ analysisReturn # << >>

\* The decision of the first-match-wins table.
StatedDecision(fairness, coverage, conflicts, policyCompliance) ==
    IF \E k \in DOMAIN conflicts : conflicts[k].severity = "High" THEN "Deny"
    ELSE IF Len(policyCompliance.violations) >= 2 THEN "Deny"
    ELSE IF coverage.riskLevel = "High"
            /\ coverage.coverageRatio.num * 2 < coverage.coverageRatio.den
         THEN "Deny"
    ELSE IF \/ coverage.riskLevel = "Medium"
            \/ fairness.score < 40
            \/ conflicts # << >>
            \/ ~policyCompliance.isCompliant
         THEN "Flagged for Review"
    ELSE "Approve"

\* C34: generateRecommendation decides as the first-match-wins table does,
\* for every input: Deny for a conflict of severity High, else Deny for two
\* or more policy violations, else Deny for High coverage risk at a ratio
\* under 0.5, else Flagged for Review for at least one concern, else Approve;
\* a High conflict gives Deny whatever the other analyses are.
C34_RecommendationIsTheTable ==
    HasReturned("generateRecommendation") =>
        /\ analysisReturn.decision =
              StatedDecision(analysisCall.fairness, analysisCall.coverage,
                             analysisCall.conflicts, analysisCall.policyCompliance)
        /\ (\E k \in DOMAIN analysisCall.conflicts :
                analysisCall.conflicts[k].severity = "High")
              => analysisReturn.decision = "Deny"

\* generateRecommendation has returned Flagged for Review for a request
\* whose only concern is a fairness score under 40.
C34_Witness ==
    /\ HasReturned("generateRecommendation")
    /\ analysisReturn.decision = "Flagged for Review"
    /\ analysisCall.fairness.score < 40
    /\ analysisCall.coverage.riskLevel = "Low"
    /\ analysisCall.conflicts = << >>
    /\ analysisCall.policyCompliance.isCompliant

\* performComprehensiveAnalysis has returned a result (it did not throw).
AnalysisReturned == HasReturned("performComprehensiveAnalysis") /\ ~analysisReturn.threw

\* C35: the analyzer never recommends Approve for a request whose computed
\* coverage riskLevel is High: the decision is then Deny or Flagged for
\* Review, whatever the fairness, the conflicts and the policy result are.
C35_NoApprovalAtHighRisk ==
    AnalysisReturned /\ analysisReturn.coverage.riskLevel = "High"
        => analysisReturn.recommendation \in { "Deny", "Flagged for Review" }

\* The weekend days (Saturdays and Sundays) from startDate to endDate.
WeekendDaysIn(startDate, endDate) ==
    Cardinality({ date \in startDate..endDate : GetDay(date) \in { 0, 6 } })

\* The risk level as stated: by the ratio, then more than 2 weekend days turn
\* Low into Medium and more than 4 weekend days give High.
StatedRiskLevel(available, total, weekendDays) ==
    LET byRatio == IF total > 0 /\ 10 * available >= 8 * total THEN "Low"
                   ELSE IF total > 0 /\ 10 * available >= 6 * total THEN "Medium"
                   ELSE "High"
    IN  IF weekendDays > 4 THEN "High"
        ELSE IF weekendDays > 2 /\ byRatio = "Low" THEN "Medium"
        ELSE byRatio

\* C36: analyzeCoverageImpact returns availableResidents = total -
\* overlapping - 1 and ratio = available / total, with riskLevel Low for a
\* ratio of 0.8 or more, Medium for 0.6 or more and High otherwise, then
\* escalated: more than 2 weekend days in the request turn Low into Medium,
\* and every request with more than 4 weekend days has riskLevel High.
C36_CoverageRiskEscalatesWithWeekends ==
    HasReturned("analyzeCoverageImpact") =>
        LET request == analysisCall.request
            leave == analysisCall.d.leaveRequests
            total == Cardinality({ r \in analysisCall.d.residents :
                                     r.onService /\ r.specialty = "Neurosurgery" })
            overlapping ==
                Cardinality({ id \in DOMAIN leave :
                    /\ leave[id].status = "Approved"
                    /\ leave[id].residentId # request.residentId
                    /\ leave[id].startDate <= request.endDate
                    /\ leave[id].endDate >= request.startDate })
            weekendDays == WeekendDaysIn(request.startDate, request.endDate)
        IN  /\ analysisReturn.totalResidents = total
            /\ analysisReturn.availableResidents = total - overlapping - 1
            /\ analysisReturn.coverageRatio = Quotient(total - overlapping - 1, total)
            /\ analysisReturn.riskLevel
                  = StatedRiskLevel(total - overlapping - 1, total, weekendDays)
            /\ weekendDays > 4 => analysisReturn.riskLevel = "High"

\* The result lists a violation of the text.
Violates(result, text) ==
    \E k \in DOMAIN result.violations : result.violations[k].text = text

\* C37: checkPolicyCompliance returns exactly these violations, each
\* independent of the others, for every configured non-negative limit, 0
\* included: the notice violation iff daysNotice < minNoticeDays and the type
\* is not Compassionate; the length violation iff requestDays >
\* maxConsecutiveDays; the annual violation iff yearDaysUsed + requestDays >
\* annualLimit; and isCompliant iff the list is empty.
C37_ViolationsByConfiguredLimits ==
    HasReturned("checkPolicyCompliance") =>
        LET request == analysisCall.request
            policy == analysisCall.configuration.leavePolicy
            daysNotice == request.startDate - analysisCall.today
            requestDays == request.endDate - request.startDate + 1
            yearDaysUsed ==
                SumOver({ l \in analysisCall.historicalLeave :
                            /\ l.status = "Approved"
                            /\ GetFullYear(l.startDate) >= GetFullYear(analysisCall.today) },
                        LeaveDays)
            notice == daysNotice < policy.minNoticeDays /\ request.type # "Compassionate"
            length == requestDays > policy.maxConsecutiveDays
            annual == yearDaysUsed + requestDays > policy.annualLimit
        IN  /\ Violates(analysisReturn, "Less than {} days notice provided") <=> notice
            /\ Violates(analysisReturn, "Exceeds maximum {} consecutive days") <=> length
            /\ Violates(analysisReturn, "Would exceed annual limit of {} days") <=> annual
            /\ Len(analysisReturn.violations)
                  = Cardinality({ v \in { << 1, notice >>, << 2, length >>, << 3, annual >> } :
                                    v[2] })
            /\ analysisReturn.isCompliant <=> analysisReturn.violations = << >>

\* The fairness score as stated, the peer average being used as given.
StatedFairnessScore(recentDaysOff, peerAverage, pgyLevel) ==
    LET peerComparison == Quotient(recentDaysOff * peerAverage.den, peerAverage.num)
        forLeave == IF recentDaysOff > 15 THEN 30
                    ELSE IF recentDaysOff > 10 THEN 20
                    ELSE IF recentDaysOff > 5 THEN 10
                    ELSE 0
        forPeers == IF QuotientAbove(peerComparison, 15, 10) THEN 20
                    ELSE IF QuotientAbove(peerComparison, 12, 10) THEN 10
                    ELSE 0
        bonus == IF QuotientBelow(peerComparison, 5, 10) THEN 10 ELSE 0
    IN  Max(0, Min(100, 100 - forLeave - forPeers + bonus + 2 * pgyLevel))

\* C38: calculateFairness returns a score in [0,100] equal to 100, minus 30
\* if recentDaysOff > 15 else 20 if > 10 else 10 if > 5, minus 20 if
\* peerComparison > 1.5 else 10 if > 1.2, plus 10 if peerComparison < 0.5,
\* plus 2 x pgyLevel, clamped to [0,100], where peerComparison is
\* recentDaysOff over the peer average, a defined average (0 included) being
\* used as given.
C38_FairnessScoreAsStated ==
    HasReturned("calculateFairness") =>
        LET recentDaysOff ==
                SumOver({ l \in analysisCall.historicalLeave : l.status = "Approved" },
                        LeaveDays)
        IN  /\ analysisReturn.score \in 0..100
            /\ analysisReturn.recentDaysOff = recentDaysOff
            /\ analysisReturn.score
                  = StatedFairnessScore(recentDaysOff,
                                        analysisCall.peerData.averageDaysOff,
                                        analysisCall.resident.pgyLevel)

\* The start date begins a period as long as the request that shares no day
\* with it and whose coverage is Low at a ratio above the request's.
IsBetterPeriod(d, request, coverage, testStart) ==
    LET testEnd == testStart + (request.endDate - request.startDate)
        testCoverage == AnalyzeCoverageImpact(d, request.residentId, testStart, testEnd)
    IN  /\ testEnd < request.startDate \/ testStart > request.endDate
        /\ testCoverage.riskLevel = "Low"
        /\ QuotientGreater(testCoverage.coverageRatio, coverage.coverageRatio)

\* C39: the alternativeDates of an analysis are empty when the
\* recommendation is Approve; otherwise they are at most 3 start dates, each
\* within 14 days of the requested start (one of the 28 candidate starts of
\* the search) and each starting a period of the same duration that shares
\* no day with the request and has Low coverage at a ratio strictly above
\* the request's.
C39_AlternativeDatesAreBetterPeriods ==
    AnalysisReturned =>
        LET alternatives == analysisReturn.alternativeDates
            request == analysisCall.request
        IN  /\ analysisReturn.recommendation = "Approve" => alternatives = << >>
            /\ Len(alternatives) <= 3
            /\ \A k \in DOMAIN alternatives :
                  /\ alternatives[k] \in (request.startDate - 14)..(request.startDate + 13)
                  /\ IsBetterPeriod(analysisCall.d, request, analysisReturn.coverage,
                                    alternatives[k])

\* An analysis that did not recommend Approve and returned three alternative
\* dates, a later start of the search window being a better period too.
C39_Witness ==
    /\ AnalysisReturned
    /\ analysisReturn.recommendation # "Approve"
    /\ Len(analysisReturn.alternativeDates) = 3
    /\ \E testStart \in (analysisCall.request.startDate - 14)..(analysisCall.request.startDate + 13) :
          /\ testStart > analysisReturn.alternativeDates[3]
          /\ IsBetterPeriod(analysisCall.d, analysisCall.request,
                            analysisReturn.coverage, testStart)

============================================================================
